---- MODULE Spec2Model ----
(***************************************************************************)
(* A model of qemuctl: the QMP transport (newQMP, Execute, ExecuteWithFd,   *)
(* eventLoop, Close), the instance state bridge (setState and the          *)
(* callbacks) and the instance lifecycle (Stop, ForceStop, cleanup, Wait).  *)
(*                                                                         *)
(* Threads: the starter (the goroutine that runs Start/Attach, caller 0),   *)
(* the user goroutines (callers 1 and 2), the read loop (eventLoop)         *)
(* and the QEMU process at the other end of the control socket.            *)
(* Every step is one lock section or one channel operation of the source.  *)
(***************************************************************************)
EXTENDS Integers, Sequences, FiniteSets, TLC

\* ---------------------------------------------------------------- bounds
MaxCmds == 4
MaxEvents == 1
\* event fan-out: events QEMU emits, lines it has written that are not yet
\* read, receives from Events(), and how many events QEMU may have emitted
\* when the event callback is installed
MaxFanout == 102
MaxInFlight == 2
MaxRecv == 2
MaxLate == 1
\* state tracking: events QEMU emits
MaxStateEvents == 3

\* ------------------------------------------------------- program constants
EventChCap == 100

\* Caller 0 is the goroutine that runs Start/Attach; 1 and 2 are user goroutines.
Users == {1, 2}
Callers == {0} \cup Users
CmdIds == 1..MaxCmds
NoCh == -1

\* State (state.go): the enumeration, by its String() name.
StateUnknown == "unknown"
StateRunning == "running"
StatePaused == "paused"
StateShutdown == "shutdown"
StateCrashed == "crashed"
StateSuspended == "suspended"
StatePrelaunch == "prelaunch"

States ==
  {StateUnknown, StateRunning, StatePaused, StateShutdown, StateCrashed,
   StateSuspended, StatePrelaunch}

IsAlive(s) ==
  s = StateRunning \/ s = StatePaused \/ s = StateSuspended \/ s = StatePrelaunch

\* parseQMPStatus without its "inmigrate" case.
parseQMPStatusNoInmigrate(status) ==
  CASE status = "running" -> StateRunning
    [] status = "paused" -> StatePaused
    [] status = "shutdown" -> StateShutdown
    [] status = "suspended" -> StateSuspended
    [] status = "prelaunch" -> StatePrelaunch
    [] status \in {"internal-error", "io-error"} -> StateCrashed
    [] OTHER -> StateUnknown

parseQMPStatus(status) ==
  CASE status = "running" -> StateRunning
    [] status = "paused" -> StatePaused
    [] status = "shutdown" -> StateShutdown
    [] status = "suspended" -> StateSuspended
    [] status = "prelaunch" -> StatePrelaunch
    [] status = "inmigrate" -> StatePrelaunch
    [] status \in {"internal-error", "io-error"} -> StateCrashed
    [] OTHER -> StateUnknown

\* handleEvent's switch: the state an event name maps to, "" for the default case.
EventState(name) ==
  CASE name = "SHUTDOWN" -> StateShutdown
    [] name = "RESET" -> StateRunning
    [] name = "STOP" -> StatePaused
    [] name = "RESUME" -> StateRunning
    [] name = "SUSPEND" -> StateSuspended
    [] name = "WAKEUP" -> StateRunning
    [] OTHER -> ""

VARIABLES
  \* QMP struct
  conn,          \* q.conn: "open" or "nil" (Close closes the socket and nils the field)
  cmdCounter,    \* q.cmdCounter
  pending,       \* q.pending: id -> the caller whose respCh is registered, NoCh if absent
  pendingNil,    \* q.pending == nil
  respCh,        \* the respCh of each caller's call in progress (capacity 1)
  eventCh,       \* q.eventCh (capacity EventChCap)
  eventChClosed,
  closeCh,       \* q.closeCh is closed
  qOnStateChange,\* q.onStateChange != nil
  qOnEvent,      \* q.onEvent != nil
  \* the socket
  scenario,      \* what the server does on connect: "normal", "race" or "junk"
  sockIn,        \* lines written by QEMU, not yet read from the socket
  rbuf,          \* lines in q.reader's buffer
  peerClosed,    \* QEMU closed its end
  srvRecv,       \* commands QEMU has received, in write order
  srvReplied,    \* ids QEMU has replied to
  srvEvents,     \* number of events QEMU has sent
  \* eventLoop goroutine
  rpc,           \* "off", "read", "statecb", "chan", "evcb", "defer1".."defer3", "done"
  rline,         \* the event being fanned out
  rlast,         \* during an event's fan-out: whether handleEvent called setState
  \* callers inside Execute / ExecuteWithFd
  cpc,           \* "idle", "reg", "write", "wait", "defer", "done"
  cid,           \* cmdID of the call
  cop,           \* the operation the call belongs to
  cres,          \* how the call returned
  crep,          \* the reply line it returned with
  \* the starter goroutine (newQMP and the tail of Start/Attach)
  spc,
  \* Instance
  state,         \* i.state
  iOnStateChange,\* i.onStateChange != nil
  scbPend,       \* per thread: the state its setState still has to pass to the callback
  \* what the user's callbacks and the channel consumer have seen
  cbLog,         \* states passed to the state-change callback
  evCbLog,       \* events passed to the event callback
  evRead,        \* number of events taken from Events()
  \* the QEMU process and the instance's handles on it
  kind,          \* how the instance was made: "spawn" (Start), "sock" (Attach), "pid"
  proc,          \* the process: "running", "zombie" (exited, not reaped) or "gone"
  sigPending,    \* a SIGKILL has been sent to the process and not yet acted on
  iQmp,          \* i.qmp != nil
  \* user goroutines inside Stop / Wait
  lop,           \* the operation: "", "stop", "wait", "quit" or "force"
  lpc,           \* "idle", "exec", "loop", "sleep", "kill", "wait", "cleanup", "setstate",
                 \* "ret", "done"
  lres,          \* what it returns: "none", "nil", "execerr", "ctxerr", "timeout",
                 \* "waiterr", "notconn"
  \* the world outside the process
  sockFile,      \* the control socket file exists
  sigs,          \* the targets SIGKILL has been sent to: "group", "pid"
  scfg,          \* the call of Start/StartVM: entry point, memory, CPUs; stale: a
                 \* socket file was there before the call
  \* the argument composer
  alloc,         \* a pciSlotAllocator: nextSlot, used, and out: the slots Alloc returned
  bcfg,          \* what the composer is given: entry point, name, socket path, config
  bargs,         \* the argument lists the composer has returned, in call order
  \* QEMU
  srvRun,        \* the guest's run state as QEMU has it: "running" or "paused"
  \* AddVNCClient / AddSpiceClient
  cfd,           \* per caller: the descriptor connToFd made ("none", "open", "closed"),
                 \* how often it was closed, the fdname, how getfd ended
  \* the socket, write by write
  wr,            \* mu: who holds connMu ("free", "writer", "closer"); wire: the pieces
                 \* of command lines in the order they reached the socket; closer:
                 \* where the caller of Close is
  \* functions looked at on their own
  pf,            \* fn: the function, in: its argument, out: what it returned, and for
                 \* AttachByPID dialed: the socket path it went on to dial
  \* the context given to StartContext / StartVMContext
  sctx           \* "live" or "done" (cancelled, or past its deadline)

qvars == <<conn, cmdCounter, pending, pendingNil, respCh, eventCh, eventChClosed,
           closeCh, qOnStateChange, qOnEvent>>
sockvars == <<scenario, sockIn, rbuf, peerClosed, srvRecv, srvReplied, srvEvents>>
rvars == <<rpc, rline, rlast>>
cvars == <<cpc, cid, cop, cres, crep>>
ivars == <<state, iOnStateChange, scbPend>>
hvars == <<cbLog, evCbLog, evRead>>
bvars == <<bcfg, bargs>>
mvars == <<wr, pf, sctx>>
yvars == <<scfg, alloc, bvars, srvRun, mvars>>
xvars == <<yvars, cfd>>
wvars == <<kind, sockFile, sigs, xvars>>
pvars == <<wvars, proc, sigPending, iQmp, lop, lpc, lres>>
vars == <<qvars, sockvars, rvars, cvars, spc, ivars, hvars, pvars>>

\* ----------------------------------------------------------------- lines
\* One line of the wire: t is what json.Unmarshal makes of it ("reply": id is
\* non-empty, "event": event is non-empty and id is empty, "junk": not JSON).
NoLine == [t |-> "none", id |-> 0, ok |-> FALSE, name |-> "", n |-> 0]
Greeting == [t |-> "greeting", id |-> 0, ok |-> TRUE, name |-> "", n |-> 0]
Junk == [t |-> "junk", id |-> 0, ok |-> FALSE, name |-> "", n |-> 0]
Reply(id, ok, status) == [t |-> "reply", id |-> id, ok |-> ok, name |-> status, n |-> 0]
EventLine(name, n) == [t |-> "event", id |-> 0, ok |-> TRUE, name |-> name, n |-> n]

EventNames == {"SHUTDOWN", "RESET", "STOP", "RESUME", "SUSPEND", "WAKEUP", "OTHER"}
SrvStatuses == {"running", "paused"}

Reader == -2

Threads == Callers \cup {Reader}

\* How the instance was made: Start spawns QEMU ("spawn"), Attach connects to
\* a control socket ("sock"), AttachByPID finds the socket of a pid ("pid").
Kinds == {"spawn", "sock", "pid"}

\* alloc when no allocator is looked at.
NoAlloc ==
  [q35 |-> FALSE, nextSlot |-> 0, used |-> {}, out |-> <<>>, panicked |-> FALSE]

\* pf when no function is looked at on its own.
NoCall == [fn |-> ""]

\* wr of a transport nothing has been written on.
NoWrites == [mu |-> "free", wire |-> <<>>, closer |-> "idle"]

\* cfd of a caller that has made no descriptor.
NoFd == [fd |-> "none", closes |-> 0, name |-> 0, getfd |-> "none"]

\* bcfg when the composer is not looked at.
NoBuild == [entry |-> ""]

\* scfg of an instance whose start is not looked at.
NoStart == [entry |-> "", memory |-> 1, cpus |-> 1, stale |-> FALSE]

\* The state the constructor gives the instance before the first query.
InitialState(k) == IF k = "spawn" THEN StatePrelaunch ELSE StateUnknown

\* i.process != nil: cmd.Process for Start, os.FindProcess(pid) for AttachByPID.
HasProcess(k) == k \in {"spawn", "pid"}

\* i.pid > 0.
HasPid(k) == k = "pid"

\* ------------------------------------------------------- Instance.setState
\* setState, first half (under stateMu): the new value of i.state.
SetStateValue(old, s) == s

\* Mutant of SetStateCallbackArg: the callback is due on every update.
SetStateCallbackAlways(old, s) == s

\* setState, second half: the value to hand to the callback, "" when old = s.
SetStateCallbackArg(old, s) == IF old /= s THEN s ELSE ""

\* The locked half of setState(s) run by thread th, as a relation on
\* <<state, scbPend>>.
SetStateLocked(th, s) ==
  /\ state' = SetStateValue(state, s)
  /\ scbPend' = [scbPend EXCEPT ![th] = SetStateCallbackArg(state, s)]

\* The unlocked half: `if old != s && i.onStateChange != nil { i.onStateChange(s) }`.
StateCallback(th) ==
  /\ scbPend[th] /= ""
  /\ cbLog' = IF iOnStateChange THEN Append(cbLog, scbPend[th]) ELSE cbLog
  /\ scbPend' = [scbPend EXCEPT ![th] = ""]

\* ------------------------------------------------------------ Execute
\* Mutant of NextCmdId: the counter is read but not advanced.
NextCmdIdSame(counter) == counter

\* cmdCounter.Add(1): the id of the next command.
NextCmdId(counter) == counter + 1

\* cmdID, fmt.Sprintf("cmd-%d", n).
CmdID(n) == <<"cmd-", n>>

\* Execute / ExecuteWithTimeout / ExecuteWithFd, first statement: take an id.
ExecBegin(c, op) ==
  /\ cpc[c] = "idle"
  /\ cmdCounter < MaxCmds
  /\ cmdCounter' = NextCmdId(cmdCounter)
  /\ cid' = [cid EXCEPT ![c] = NextCmdId(cmdCounter)]
  /\ cop' = [cop EXCEPT ![c] = op]
  /\ cres' = [cres EXCEPT ![c] = "none"]
  /\ crep' = [crep EXCEPT ![c] = NoLine]
  /\ respCh' = [respCh EXCEPT ![c] = <<>>]
  /\ cpc' = [cpc EXCEPT ![c] = "reg"]

\* `q.pending[cmdID] = respCh` under pendingMu, or the early return on a nil table.
ExecRegister(c) ==
  /\ cpc[c] = "reg"
  /\ IF pendingNil
       THEN /\ cres' = [cres EXCEPT ![c] = "closed"]
            /\ cpc' = [cpc EXCEPT ![c] = "done"]
            /\ UNCHANGED pending
       ELSE /\ pending' = [pending EXCEPT ![cid[c]] = c]
            /\ cpc' = [cpc EXCEPT ![c] = "write"]
            /\ UNCHANGED cres
  /\ UNCHANGED <<conn, cmdCounter, pendingNil, respCh, eventCh, eventChClosed, closeCh,
                 qOnStateChange, qOnEvent, sockvars, rvars, cid, cop, crep, spc, ivars,
                 hvars, pvars>>

CmdOf(op) ==
  CASE op = "negotiate" -> "qmp_capabilities"
    [] op = "query" -> "query-status"
    [] op = "stop" -> "system_powerdown"
    [] op = "quit" -> "quit"
    [] op = "fd" -> "getfd"
    [] op = "addclient" -> "add_client"
    [] op = "pause" -> "stop"
    [] op = "cont" -> "cont"
    [] OTHER -> "cmd"

\* The write under connMu: conn.Write (Execute) or Sendmsg with SCM_RIGHTS
\* (ExecuteWithFd). It fails once QEMU has closed its end.
ExecWrite(c) ==
  /\ cpc[c] = "write"
  /\ IF conn = "nil"
       THEN /\ cres' = [cres EXCEPT ![c] = "closed"]
            /\ cpc' = [cpc EXCEPT ![c] = "defer"]
            /\ UNCHANGED srvRecv
       ELSE IF peerClosed
         THEN /\ cres' = [cres EXCEPT ![c] = "writeerr"]
              /\ cpc' = [cpc EXCEPT ![c] = "defer"]
              /\ UNCHANGED srvRecv
         ELSE /\ srvRecv' = Append(srvRecv,
                     [id |-> cid[c], cmd |-> CmdOf(cop[c]), fd |-> cop[c] = "fd",
                      name |-> IF cop[c] \in {"fd", "addclient"} THEN cfd[c].name ELSE 0])
              /\ cpc' = [cpc EXCEPT ![c] = "wait"]
              /\ UNCHANGED cres
  /\ UNCHANGED <<qvars, scenario, sockIn, rbuf, peerClosed, srvReplied, srvEvents, rvars,
                 cid, cop, crep, spc, ivars, hvars, pvars>>

\* Mutant of SelectCases: the select has no closeCh case.
SelectCasesNoClose(c) ==
  (IF respCh[c] /= <<>> THEN {"resp"} ELSE {}) \cup {"timer"}

\* The cases of the final select that are ready.
SelectCases(c) ==
  (IF respCh[c] /= <<>> THEN {"resp"} ELSE {})
    \cup {"timer"}
    \cup (IF closeCh THEN {"close"} ELSE {})

\* The select: a reply from respCh, the timer, or closeCh.
ExecSelect(c) ==
  /\ cpc[c] = "wait"
  /\ \E br \in SelectCases(c) :
       /\ cres' = [cres EXCEPT ![c] =
            CASE br = "resp" -> (IF Head(respCh[c]).ok THEN "return" ELSE "qmperror")
              [] br = "timer" -> "timeout"
              [] OTHER -> "closed"]
       /\ crep' = [crep EXCEPT ![c] = IF br = "resp" THEN Head(respCh[c]) ELSE NoLine]
       /\ respCh' = [respCh EXCEPT ![c] = IF br = "resp" THEN <<>> ELSE respCh[c]]
  /\ cpc' = [cpc EXCEPT ![c] = "defer"]
  /\ UNCHANGED <<conn, cmdCounter, pending, pendingNil, eventCh, eventChClosed, closeCh,
                 qOnStateChange, qOnEvent, sockvars, rvars, cid, cop, spc, ivars, hvars,
                 pvars>>

\* Mutant of DeletePending: the entry is left in the table.
DeletePendingNever(p, id) == p

\* The pending table after the deferred `delete(q.pending, cmdID)` (a no-op on nil).
DeletePending(p, id) == [p EXCEPT ![id] = NoCh]

ExecDefer(c) ==
  /\ cpc[c] = "defer"
  /\ pending' = DeletePending(pending, cid[c])
  /\ cpc' = [cpc EXCEPT ![c] = "done"]
  /\ UNCHANGED <<conn, cmdCounter, pendingNil, respCh, eventCh, eventChClosed, closeCh,
                 qOnStateChange, qOnEvent, sockvars, rvars, cid, cop, cres, crep, spc,
                 ivars, hvars, pvars>>

\* QMP.Close: close the socket and nil q.conn, under connMu.
CloseConn == "nil"

\* The caller of Execute goes on with the result; the call's locals are gone.
Returned(c) ==
  /\ cpc' = [cpc EXCEPT ![c] = "idle"]
  /\ cid' = [cid EXCEPT ![c] = 0]
  /\ cop' = [cop EXCEPT ![c] = ""]
  /\ cres' = [cres EXCEPT ![c] = "none"]
  /\ crep' = [crep EXCEPT ![c] = NoLine]
  /\ respCh' = [respCh EXCEPT ![c] = <<>>]

\* ---------------------------------------------------------- eventLoop
\* Mutant of DeliverTo: the reply goes to the oldest registered sink.
DeliverToOldest(p, id) ==
  IF \E i \in CmdIds : p[i] /= NoCh
    THEN p[CHOOSE i \in CmdIds : p[i] /= NoCh /\ \A j \in CmdIds : j < i => p[j] = NoCh]
    ELSE NoCh

\* The caller whose respCh a reply with this id is sent to: q.pending[resp.ID].
DeliverTo(p, id) == IF id \in CmdIds THEN p[id] ELSE NoCh

\* A sink that takes every reply sent to it.
SinkSendQueue(ch, line) == Append(ch, line)

\* `select { case ch <- &resp: default: }` on a channel of capacity 1.
SinkSend(ch, line) == IF Len(ch) < 1 THEN Append(ch, line) ELSE ch

\* Mutant of EventChSend: a full channel drops its oldest event.
EventChSendDropOldest(ch, ev) ==
  IF Len(ch) < EventChCap THEN Append(ch, ev) ELSE Append(Tail(ch), ev)

\* `select { case q.eventCh <- event: default: }`.
EventChSend(ch, ev) == IF Len(ch) < EventChCap THEN Append(ch, ev) ELSE ch

\* handleEvent: whether it calls q.onStateChange for this event.
\* Mutant of HandleEventApplies: handleEvent leaves the state alone.
HandleEventAppliesNever(bridge, name) == FALSE

HandleEventApplies(bridge, name) == bridge /\ EventState(name) /= ""

\* bufio.Reader.ReadBytes, when the buffer is empty: one conn.Read takes what
\* the socket holds.
ReadFill ==
  /\ rpc = "read"
  /\ rbuf = <<>>
  /\ conn = "open"
  /\ sockIn /= <<>>
  /\ rbuf' = sockIn
  /\ sockIn' = <<>>
  /\ UNCHANGED <<qvars, scenario, peerClosed, srvRecv, srvReplied, srvEvents, rvars,
                 cvars, spc, ivars, hvars, pvars>>

\* One iteration of the loop on the next line of the buffer: a line that is
\* not JSON is skipped, a reply goes to its sink, an event starts its fan-out
\* with handleEvent.
ReadLine ==
  /\ rpc = "read"
  /\ rbuf /= <<>>
  /\ rbuf' = Tail(rbuf)
  /\ LET line == Head(rbuf)
         to == DeliverTo(pending, line.id)
         applies == HandleEventApplies(qOnStateChange, line.name)
     IN
     /\ CASE line.t = "reply" ->
               /\ respCh' = IF to /= NoCh
                              THEN [respCh EXCEPT ![to] = SinkSend(respCh[to], line)]
                              ELSE respCh
               /\ rpc' = "read"
               /\ UNCHANGED <<rline, rlast, state, scbPend>>
          [] line.t = "event" ->
               /\ IF applies
                    THEN SetStateLocked(Reader, EventState(line.name))
                    ELSE UNCHANGED <<state, scbPend>>
               /\ rline' = line
               /\ rlast' = IF applies THEN "applied" ELSE "skipped"
               /\ rpc' = IF applies /\ SetStateCallbackArg(state, EventState(line.name)) /= ""
                           THEN "statecb" ELSE "chan"
               /\ UNCHANGED respCh
          [] OTHER ->
               /\ rpc' = "read"
               /\ UNCHANGED <<rline, rlast, respCh, state, scbPend>>
  /\ UNCHANGED <<conn, cmdCounter, pending, pendingNil, eventCh, eventChClosed, closeCh,
                 qOnStateChange, qOnEvent, scenario, sockIn, peerClosed, srvRecv,
                 srvReplied, srvEvents, cvars, spc, iOnStateChange, hvars, pvars>>

\* The second half of the setState that handleEvent started.
ReadStateCb ==
  /\ rpc = "statecb"
  /\ StateCallback(Reader)
  /\ rpc' = "chan"
  /\ UNCHANGED <<qvars, sockvars, rline, rlast, cvars, spc, state, iOnStateChange,
                 evCbLog, evRead, pvars>>

\* The non-blocking send of the event to q.eventCh.
ReadChan ==
  /\ rpc = "chan"
  /\ eventCh' = EventChSend(eventCh, rline)
  /\ rpc' = "evcb"
  /\ UNCHANGED <<conn, cmdCounter, pending, pendingNil, respCh, eventChClosed, closeCh,
                 qOnStateChange, qOnEvent, sockvars, rline, rlast, cvars, spc, ivars,
                 hvars, pvars>>

\* `if q.onEvent != nil { q.onEvent(event) }`.
ReadEventCb ==
  /\ rpc = "evcb"
  /\ evCbLog' = IF qOnEvent THEN Append(evCbLog, rline) ELSE evCbLog
  /\ rpc' = "read"
  /\ rline' = NoLine
  /\ rlast' = "none"
  /\ UNCHANGED <<qvars, sockvars, cvars, spc, ivars, cbLog, evRead, pvars>>

\* ReadBytes returns an error: the socket was closed by Close, or QEMU closed
\* its end and everything it wrote has been read.
ReadError ==
  /\ rpc = "read"
  /\ rbuf = <<>>
  /\ conn = "nil" \/ (peerClosed /\ sockIn = <<>>)
  /\ rpc' = "defer1"
  /\ UNCHANGED <<qvars, sockvars, rline, rlast, cvars, spc, ivars, hvars, pvars>>

\* The deferred function of eventLoop, statement by statement.
ReadDeferCloseCh ==
  /\ rpc = "defer1"
  /\ closeCh' = TRUE
  /\ rpc' = "defer2"
  /\ UNCHANGED <<conn, cmdCounter, pending, pendingNil, respCh, eventCh, eventChClosed,
                 qOnStateChange, qOnEvent, sockvars, rline, rlast, cvars, spc, ivars,
                 hvars, pvars>>

ReadDeferEventCh ==
  /\ rpc = "defer2"
  /\ eventChClosed' = TRUE
  /\ rpc' = "defer3"
  /\ UNCHANGED <<conn, cmdCounter, pending, pendingNil, respCh, eventCh, closeCh,
                 qOnStateChange, qOnEvent, sockvars, rline, rlast, cvars, spc, ivars,
                 hvars, pvars>>

ReadDeferPending ==
  /\ rpc = "defer3"
  /\ pendingNil' = TRUE
  /\ pending' = [i \in CmdIds |-> NoCh]
  /\ rpc' = "done"
  /\ UNCHANGED <<conn, cmdCounter, respCh, eventCh, eventChClosed, closeCh,
                 qOnStateChange, qOnEvent, sockvars, rline, rlast, cvars, spc, ivars,
                 hvars, pvars>>

\* ------------------------------------------------------------- QEMU
\* QEMU answers a command it has received; replies may come in any order.
SrvReply(statuses) ==
  /\ ~peerClosed
  /\ \E i \in 1..Len(srvRecv), ok \in BOOLEAN, st \in statuses :
       /\ srvRecv[i].id \notin srvReplied
       /\ st = "running" \/ (ok /\ srvRecv[i].cmd = "query-status")
       /\ sockIn' = Append(sockIn,
            Reply(srvRecv[i].id, ok,
                  IF ok /\ srvRecv[i].cmd = "query-status" THEN st ELSE ""))
       /\ srvReplied' = srvReplied \cup {srvRecv[i].id}
  /\ UNCHANGED <<qvars, scenario, rbuf, peerClosed, srvRecv, srvEvents, rvars, cvars,
                 spc, ivars, hvars, pvars>>

\* Once in command mode (it has received and answered qmp_capabilities) QEMU
\* may emit an event, or a line that is not JSON.
SrvUnsolicited(names, max) ==
  /\ ~peerClosed
  /\ srvRecv /= <<>>
  /\ 1 \in srvReplied
  /\ srvEvents < max
  /\ \E name \in names :
       sockIn' = Append(sockIn,
         IF name = "junk" THEN Junk ELSE EventLine(name, srvEvents + 1))
  /\ srvEvents' = srvEvents + 1
  /\ UNCHANGED <<qvars, scenario, rbuf, peerClosed, srvRecv, srvReplied, rvars, cvars,
                 spc, ivars, hvars, pvars>>

\* QEMU exits or closes the monitor connection.
SrvClose ==
  /\ ~peerClosed
  /\ peerClosed' = TRUE
  /\ UNCHANGED <<qvars, scenario, sockIn, rbuf, srvRecv, srvReplied, srvEvents, rvars,
                 cvars, spc, ivars, hvars, pvars>>

\* ------------------------------------------------------------ newQMP
\* readGreeting reads byte by byte up to the first newline: what it leaves in
\* the socket.
GreetingRest(buf) == Tail(buf)

\* readGreeting, and newQMP's `conn.Close(); return nil, err` when it fails (a
\* read error, or a line that is not JSON).
NewQMPGreeting ==
  /\ spc = "greet"
  /\ sockIn /= <<>> \/ peerClosed
  /\ IF sockIn /= <<>>
       THEN /\ sockIn' = GreetingRest(sockIn)
            /\ IF Head(sockIn).t = "junk"
                 THEN conn' = CloseConn /\ spc' = "failed"
                 ELSE conn' = conn /\ spc' = "startloop"
       ELSE /\ conn' = CloseConn
            /\ spc' = "failed"
            /\ UNCHANGED sockIn
  /\ UNCHANGED <<cmdCounter, pending, pendingNil, respCh, eventCh, eventChClosed, closeCh,
                 qOnStateChange, qOnEvent, scenario, rbuf, peerClosed, srvRecv,
                 srvReplied, srvEvents, rvars, cvars, ivars, hvars, pvars>>

\* `q.reader = bufio.NewReader(conn); go q.eventLoop()`.
NewQMPStartLoop ==
  /\ spc = "startloop"
  /\ rpc' = "read"
  /\ spc' = "negotiate"
  /\ UNCHANGED <<qvars, sockvars, rline, rlast, cvars, ivars, hvars, pvars>>

\* negotiate: Execute("qmp_capabilities").
NegotiateBegin ==
  /\ spc = "negotiate"
  /\ ExecBegin(0, "negotiate")
  /\ UNCHANGED <<conn, pending, pendingNil, eventCh, eventChClosed, closeCh,
                 qOnStateChange, qOnEvent, sockvars, rvars, spc, ivars, hvars, pvars>>

\* Mutant of NegotiateOK: the error of negotiate is ignored.
NegotiateIgnored(res) == TRUE

\* Whether newQMP returns the transport: negotiate returned no error.
NegotiateOK(res) == res = "return"

\* negotiate has returned: newQMP returns q, or `q.Close(); return nil, err`.
NegotiateEnd ==
  /\ spc = "negotiate"
  /\ cpc[0] = "done"
  /\ Returned(0)
  /\ IF NegotiateOK(cres[0])
       THEN conn' = conn /\ spc' = "install"
       ELSE conn' = CloseConn /\ spc' = "failed"
  /\ UNCHANGED <<cmdCounter, pending, pendingNil, eventCh, eventChClosed, closeCh,
                 qOnStateChange, qOnEvent, sockvars, rvars, ivars, hvars, pvars>>

\* StartContext / AttachContext, once newQMP has returned the transport:
\* `inst.qmp = qmp; qmp.SetStateChangeCallback(func(s) { inst.setState(s) })`.
InstallBridge ==
  /\ spc = "install"
  /\ iQmp' = TRUE
  /\ qOnStateChange' = TRUE
  /\ spc' = "query"
  /\ UNCHANGED <<conn, cmdCounter, pending, pendingNil, respCh, eventCh, eventChClosed,
                 closeCh, qOnEvent, sockvars, rvars, cvars, ivars, hvars, wvars, proc,
                 sigPending, lop, lpc, lres>>

\* The best-effort inst.QueryState() that ends Start/Attach.
InitialQueryBegin ==
  /\ spc = "query"
  /\ ExecBegin(0, "query")
  /\ UNCHANGED <<conn, pending, pendingNil, eventCh, eventChClosed, closeCh,
                 qOnStateChange, qOnEvent, sockvars, rvars, spc, ivars, hvars, pvars>>

\* QueryState after Execute: `i.setState(parseQMPStatus(status.Status))` when
\* the call returned a reply. No user callback is installed yet.
InitialQueryEnd ==
  /\ spc = "query"
  /\ cpc[0] = "done"
  /\ Returned(0)
  /\ state' = IF cres[0] = "return"
                THEN SetStateValue(state, parseQMPStatus(crep[0].name))
                ELSE state
  /\ spc' = "returned"
  /\ UNCHANGED <<conn, cmdCounter, pending, pendingNil, eventCh, eventChClosed, closeCh,
                 qOnStateChange, qOnEvent, sockvars, rvars, iOnStateChange, scbPend,
                 hvars, pvars>>

\* -------------------------------------------------------------- users
\* A user goroutine calls Execute ("exec"), ExecuteWithFd ("fd") or
\* Instance.QueryState ("query") on the instance Start returned.
UserOps == {"exec", "fd", "query"}

UserBegin(c, ops) ==
  /\ spc = "returned"
  /\ scbPend[c] = ""
  /\ \E op \in ops : ExecBegin(c, op)
  /\ UNCHANGED <<conn, pending, pendingNil, eventCh, eventChClosed, closeCh,
                 qOnStateChange, qOnEvent, sockvars, rvars, spc, ivars, hvars, pvars>>

\* The call has returned; QueryState goes on to setState.
UserEnd(c) ==
  /\ c \in Users
  /\ cpc[c] = "done"
  /\ Returned(c)
  /\ IF cop[c] = "query" /\ cres[c] = "return"
       THEN SetStateLocked(c, parseQMPStatus(crep[c].name))
       ELSE UNCHANGED <<state, scbPend>>
  /\ UNCHANGED <<conn, cmdCounter, pending, pendingNil, eventCh, eventChClosed, closeCh,
                 qOnStateChange, qOnEvent, sockvars, rvars, spc, iOnStateChange, hvars,
                 pvars>>

UserStateCb(c) ==
  /\ c \in Users
  /\ StateCallback(c)
  /\ UNCHANGED <<qvars, sockvars, rvars, cvars, spc, state, iOnStateChange, evCbLog,
                 evRead, pvars>>

\* QMP.Close (a no-op when q.conn is already nil).
UserClose ==
  /\ spc = "returned"
  /\ conn = "open"
  /\ conn' = CloseConn
  /\ UNCHANGED <<cmdCounter, pending, pendingNil, respCh, eventCh, eventChClosed, closeCh,
                 qOnStateChange, qOnEvent, sockvars, rvars, cvars, spc, ivars, hvars,
                 pvars>>

\* Instance.SetStateChangeCallback.
UserSetStateCb ==
  /\ spc = "returned"
  /\ ~iOnStateChange
  /\ iOnStateChange' = TRUE
  /\ qOnStateChange' = TRUE
  /\ UNCHANGED <<conn, cmdCounter, pending, pendingNil, respCh, eventCh, eventChClosed,
                 closeCh, qOnEvent, sockvars, rvars, cvars, spc, state, scbPend, hvars,
                 pvars>>

\* Instance.SetEventCallback.
UserSetEventCb ==
  /\ spc = "returned"
  /\ ~qOnEvent
  /\ qOnEvent' = TRUE
  /\ UNCHANGED <<conn, cmdCounter, pending, pendingNil, respCh, eventCh, eventChClosed,
                 closeCh, qOnStateChange, sockvars, rvars, cvars, spc, ivars, hvars,
                 pvars>>

\* A receive from Events().
UserRecvEvent ==
  /\ eventCh /= <<>>
  /\ eventCh' = Tail(eventCh)
  /\ evRead' = evRead + 1
  /\ UNCHANGED <<conn, cmdCounter, pending, pendingNil, respCh, eventChClosed, closeCh,
                 qOnStateChange, qOnEvent, sockvars, rvars, cvars, spc, ivars, cbLog,
                 evCbLog, pvars>>

\* ------------------------------------------------------ Start / Attach
\* The state after net.Dial in newQMP: QEMU has accepted the connection and
\* writes its greeting ("normal"), its greeting and at once a reply to cmd-1
\* ("race"), or something that is not JSON ("junk"). The instance is the one
\* StartContext (Prelaunch) or AttachContext (Unknown) builds.
Init ==
  /\ conn = "open"
  /\ cmdCounter = 0
  /\ pending = [i \in CmdIds |-> NoCh]
  /\ pendingNil = FALSE
  /\ respCh = [c \in Threads |-> <<>>]
  /\ eventCh = <<>>
  /\ eventChClosed = FALSE
  /\ closeCh = FALSE
  /\ qOnStateChange = FALSE
  /\ qOnEvent = FALSE
  /\ scenario \in {"normal", "race", "junk"}
  /\ sockIn = CASE scenario = "normal" -> <<Greeting>>
                [] scenario = "race" -> <<Greeting, Reply(1, TRUE, "")>>
                [] OTHER -> <<Junk>>
  /\ rbuf = <<>>
  /\ peerClosed = FALSE
  /\ srvRecv = <<>>
  /\ srvReplied = IF scenario = "race" THEN {1} ELSE {}
  /\ srvEvents = 0
  /\ rpc = "off"
  /\ rline = NoLine
  /\ rlast = "none"
  /\ cpc = [c \in Threads |-> "idle"]
  /\ cid = [c \in Threads |-> 0]
  /\ cop = [c \in Threads |-> ""]
  /\ cres = [c \in Threads |-> "none"]
  /\ crep = [c \in Threads |-> NoLine]
  /\ spc = "greet"
  /\ kind \in Kinds
  /\ state = InitialState(kind)
  /\ iOnStateChange = FALSE
  /\ scbPend = [t \in Threads |-> ""]
  /\ cbLog = <<>>
  /\ evCbLog = <<>>
  /\ evRead = 0
  /\ proc = "running"
  /\ sigPending = FALSE
  /\ iQmp = FALSE
  /\ lop = [c \in Users |-> ""]
  /\ lpc = [c \in Users |-> "idle"]
  /\ lres = [c \in Users |-> "none"]
  /\ sockFile = TRUE
  /\ sigs = {}
  /\ scfg = NoStart
  /\ alloc = NoAlloc
  /\ bcfg = NoBuild
  /\ bargs = <<>>
  /\ srvRun = "running"
  /\ cfd = [c \in Users |-> NoFd]
  /\ wr = NoWrites
  /\ sctx = "live"
  /\ pf = NoCall

\* Start/Attach from the dial to its return, with the read loop and QEMU.
Next ==
  \/ NewQMPGreeting
  \/ NewQMPStartLoop
  \/ NegotiateBegin
  \/ NegotiateEnd
  \/ InstallBridge
  \/ InitialQueryBegin
  \/ InitialQueryEnd
  \/ ExecRegister(0)
  \/ ExecWrite(0)
  \/ ExecSelect(0)
  \/ ExecDefer(0)
  \/ ReadFill
  \/ ReadLine
  \/ ReadStateCb
  \/ ReadChan
  \/ ReadEventCb
  \/ ReadError
  \/ ReadDeferCloseCh
  \/ ReadDeferEventCh
  \/ ReadDeferPending
  \/ SrvReply(SrvStatuses)
  \/ SrvUnsolicited(EventNames \cup {"junk"}, MaxEvents)
  \/ SrvClose

Spec == Init /\ [][Next]_vars

\* ------------------------------------------------- concurrent commands
\* The transport of a started instance: the handshake (cmd-1) and the initial
\* query-status (cmd-2) are done, the read loop is reading.
StartedCore ==
  /\ conn = "open"
  /\ cmdCounter = 2
  /\ pending = [i \in CmdIds |-> NoCh]
  /\ pendingNil = FALSE
  /\ respCh = [c \in Threads |-> <<>>]
  /\ eventCh = <<>>
  /\ eventChClosed = FALSE
  /\ closeCh = FALSE
  /\ qOnStateChange = TRUE
  /\ scenario = "normal"
  /\ sockIn = <<>>
  /\ rbuf = <<>>
  /\ peerClosed = FALSE
  /\ srvRecv = <<[id |-> 1, cmd |-> "qmp_capabilities", fd |-> FALSE, name |-> 0],
                 [id |-> 2, cmd |-> "query-status", fd |-> FALSE, name |-> 0]>>
  /\ srvReplied = {1, 2}
  /\ srvEvents = 0
  /\ rpc = "read"
  /\ rline = NoLine
  /\ rlast = "none"
  /\ cpc = [c \in Threads |-> "idle"]
  /\ cid = [c \in Threads |-> 0]
  /\ cop = [c \in Threads |-> ""]
  /\ cres = [c \in Threads |-> "none"]
  /\ crep = [c \in Threads |-> NoLine]
  /\ spc = "returned"
  /\ scbPend = [t \in Threads |-> ""]
  /\ cbLog = <<>>
  /\ evCbLog = <<>>
  /\ evRead = 0
  /\ proc = "running"
  /\ sigPending = FALSE
  /\ iQmp = TRUE
  /\ lop = [c \in Users |-> ""]
  /\ lpc = [c \in Users |-> "idle"]
  /\ lres = [c \in Users |-> "none"]
  /\ sockFile = TRUE
  /\ sigs = {}

\* The instance Start or Attach has returned, connected, the read loop running.
Started ==
  /\ StartedCore
  /\ scfg = NoStart
  /\ alloc = NoAlloc
  /\ bcfg = NoBuild
  /\ bargs = <<>>
  /\ srvRun = "running"
  /\ cfd = [c \in Users |-> NoFd]
  /\ wr = NoWrites
  /\ sctx = "live"
  /\ pf = NoCall

InitCalls ==
  /\ Started
  /\ kind = "spawn"
  /\ state = StateRunning
  /\ iOnStateChange = FALSE
  /\ qOnEvent = FALSE

\* Two user goroutines call Execute and ExecuteWithFd while the read loop
\* dispatches, QEMU replies in any order and the connection may be closed from
\* either end.
NextCalls ==
  \/ UserBegin(1, {"exec"})
  \/ UserBegin(2, {"fd"})
  \/ \E c \in Users : ExecRegister(c)
  \/ \E c \in Users : ExecWrite(c)
  \/ \E c \in Users : ExecSelect(c)
  \/ \E c \in Users : ExecDefer(c)
  \/ \E c \in Users : UserEnd(c)
  \/ UserClose
  \/ ReadFill
  \/ ReadLine
  \/ ReadError
  \/ ReadDeferCloseCh
  \/ ReadDeferEventCh
  \/ ReadDeferPending
  \/ SrvReply({"running"})
  \/ SrvClose

SpecCalls == InitCalls /\ [][NextCalls]_vars

\* ------------------------------------------------------- Stop and Wait
\* isProcessAlive: false without a process handle and a pid, else whether
\* kill(pid, 0) succeeds, which it does for a running process and for one
\* that has exited and has not been reaped.
IsProcessAlive(k, p) == (HasProcess(k) \/ HasPid(k)) /\ p \in {"running", "zombie"}

\* A ForceStop that signals nothing.
ForceStopSignalsNone(k, p) == FALSE

\* ForceStop: whether its kill reaches a live process (SIGKILL to the process
\* group and the process when there is a handle, to the pid otherwise).
ForceStopSignals(k, p) == (HasProcess(k) \/ HasPid(k)) /\ p = "running"

\* StopContext, up to the system_powerdown command: without a transport it
\* returns what ForceStop returns, which is nil.
StopBegin(c) ==
  /\ spc = "returned"
  /\ lpc[c] = "idle"
  /\ scbPend[c] = ""
  /\ lop' = [lop EXCEPT ![c] = "stop"]
  /\ IF iQmp
       THEN /\ ExecBegin(c, "stop")
            /\ lpc' = [lpc EXCEPT ![c] = "exec"]
            /\ UNCHANGED lres
       ELSE /\ lpc' = [lpc EXCEPT ![c] = "kill"]
            /\ lres' = [lres EXCEPT ![c] = "nil"]
            /\ UNCHANGED <<cmdCounter, respCh, cvars>>
  /\ UNCHANGED <<conn, pending, pendingNil, eventCh, eventChClosed, closeCh,
                 qOnStateChange, qOnEvent, sockvars, rvars, spc, ivars, hvars, wvars, proc,
                 sigPending, iQmp>>

\* Execute("system_powerdown") has returned: on an error ForceStop and return
\* the error, else enter the wait loop.
StopExecuted(c) ==
  /\ lop[c] = "stop"
  /\ lpc[c] = "exec"
  /\ cpc[c] = "done"
  /\ Returned(c)
  /\ IF cres[c] = "return"
       THEN lpc' = [lpc EXCEPT ![c] = "loop"] /\ UNCHANGED lres
       ELSE /\ lpc' = [lpc EXCEPT ![c] = "kill"]
            /\ lres' = [lres EXCEPT ![c] = "execerr"]
  /\ UNCHANGED <<conn, cmdCounter, pending, pendingNil, eventCh, eventChClosed, closeCh,
                 qOnStateChange, qOnEvent, sockvars, rvars, spc, ivars, hvars, wvars, proc,
                 sigPending, iQmp, lop>>

\* One tick of the wait loop that has something to act on: the process is
\* not alive (cleanup, return nil), or the state is Shutdown (sleep 500 ms).
StopTick(c) ==
  /\ lpc[c] = "loop"
  /\ IF ~IsProcessAlive(kind, proc)
       THEN /\ lpc' = [lpc EXCEPT ![c] = "cleanup"]
            /\ lres' = [lres EXCEPT ![c] = "nil"]
       ELSE /\ state = StateShutdown
            /\ lpc' = [lpc EXCEPT ![c] = "sleep"]
            /\ UNCHANGED lres
  /\ UNCHANGED <<qvars, sockvars, rvars, cvars, spc, ivars, hvars, wvars, proc, sigPending,
                 iQmp, lop>>

\* After the sleep: the second isProcessAlive check.
StopSlept(c) ==
  /\ lpc[c] = "sleep"
  /\ IF ~IsProcessAlive(kind, proc)
       THEN /\ lpc' = [lpc EXCEPT ![c] = "cleanup"]
            /\ lres' = [lres EXCEPT ![c] = "nil"]
       ELSE /\ lpc' = [lpc EXCEPT ![c] = "loop"]
            /\ UNCHANGED lres
  /\ UNCHANGED <<qvars, sockvars, rvars, cvars, spc, ivars, hvars, wvars, proc, sigPending,
                 iQmp, lop>>

\* The deadline has passed: ForceStop and return the timeout error.
StopDeadline(c) ==
  /\ lpc[c] = "loop"
  /\ lpc' = [lpc EXCEPT ![c] = "kill"]
  /\ lres' = [lres EXCEPT ![c] = "timeout"]
  /\ UNCHANGED <<qvars, sockvars, rvars, cvars, spc, ivars, hvars, wvars, proc, sigPending,
                 iQmp, lop>>

\* ctx.Done() in the loop's select: ForceStop and return ctx.Err().
StopCancelled(c) ==
  /\ lpc[c] = "loop"
  /\ lpc' = [lpc EXCEPT ![c] = "kill"]
  /\ lres' = [lres EXCEPT ![c] = "ctxerr"]
  /\ UNCHANGED <<qvars, sockvars, rvars, cvars, spc, ivars, hvars, wvars, proc, sigPending,
                 iQmp, lop>>

\* ForceStop: what its kill calls are aimed at. With a process handle,
\* syscall.Kill(-i.process.Pid, SIGKILL) and i.process.Kill(); with a pid
\* only, syscall.Kill(i.pid, SIGKILL); with neither, nothing.
ForceStopTargets(k) ==
  IF HasProcess(k) THEN {"group", "pid"}
  ELSE IF HasPid(k) THEN {"pid"}
  ELSE {}

\* ForceStop, the kill; cleanup follows.
ForceStopKill(c) ==
  /\ lpc[c] = "kill"
  /\ sigPending' = (sigPending \/ ForceStopSignals(kind, proc))
  /\ sigs' = sigs \cup ForceStopTargets(kind)
  /\ lpc' = [lpc EXCEPT ![c] = "cleanup"]
  /\ UNCHANGED <<qvars, sockvars, rvars, cvars, spc, ivars, hvars, kind, sockFile, xvars, proc,
                 iQmp, lop, lres>>

\* cleanup, under qmpMu: `if i.qmp != nil { i.qmp.Close(); i.qmp = nil }`.
Cleanup(c) ==
  /\ lpc[c] = "cleanup"
  /\ conn' = IF iQmp THEN CloseConn ELSE conn
  /\ iQmp' = FALSE
  /\ lpc' = [lpc EXCEPT ![c] = "setstate"]
  /\ UNCHANGED <<cmdCounter, pending, pendingNil, respCh, eventCh, eventChClosed, closeCh,
                 qOnStateChange, qOnEvent, sockvars, rvars, cvars, spc, ivars, hvars, wvars,
                 proc, sigPending, lop, lres>>

\* cleanup: `i.setState(StateShutdown)`, the locked half.
CleanupSetState(c) ==
  /\ lpc[c] = "setstate"
  /\ SetStateLocked(c, StateShutdown)
  /\ lpc' = [lpc EXCEPT ![c] = "ret"]
  /\ UNCHANGED <<qvars, sockvars, rvars, cvars, spc, iOnStateChange, hvars, wvars, proc,
                 sigPending, iQmp, lop, lres>>

\* cleanup: whether it removes the socket file, `if i.socketPath != ""`. Start
\* and Attach both set socketPath, so it is never empty.
CleanupRemoves(k) == k \in Kinds

\* The end of cleanup, `os.Remove(i.socketPath)`, and the operation's return
\* to its caller.
OpReturn(c) ==
  /\ lpc[c] = "ret"
  /\ scbPend[c] = ""
  /\ sockFile' = (sockFile /\ ~CleanupRemoves(kind))
  /\ lpc' = [lpc EXCEPT ![c] = "done"]
  /\ UNCHANGED <<qvars, sockvars, rvars, cvars, spc, ivars, hvars, kind, sigs, xvars, proc,
                 sigPending, iQmp, lop, lres>>

\* The caller has the result and may call again.
OpForget(c) ==
  /\ lpc[c] = "done"
  /\ lpc' = [lpc EXCEPT ![c] = "idle"]
  /\ lop' = [lop EXCEPT ![c] = ""]
  /\ lres' = [lres EXCEPT ![c] = "none"]
  /\ UNCHANGED <<qvars, sockvars, rvars, cvars, spc, ivars, hvars, wvars, proc, sigPending,
                 iQmp>>

\* ForceStop called by the user: the kill, then cleanup; it returns nil.
ForceStopBegin(c) ==
  /\ spc = "returned"
  /\ lpc[c] = "idle"
  /\ scbPend[c] = ""
  /\ lop' = [lop EXCEPT ![c] = "force"]
  /\ lpc' = [lpc EXCEPT ![c] = "kill"]
  /\ lres' = [lres EXCEPT ![c] = "nil"]
  /\ UNCHANGED <<qvars, sockvars, rvars, cvars, spc, ivars, hvars, wvars, proc, sigPending,
                 iQmp>>

\* Quit, up to the quit command: without a transport it returns "not connected".
QuitBegin(c) ==
  /\ spc = "returned"
  /\ lpc[c] = "idle"
  /\ scbPend[c] = ""
  /\ lop' = [lop EXCEPT ![c] = "quit"]
  /\ IF iQmp
       THEN /\ ExecBegin(c, "quit")
            /\ lpc' = [lpc EXCEPT ![c] = "exec"]
            /\ UNCHANGED lres
       ELSE /\ lpc' = [lpc EXCEPT ![c] = "done"]
            /\ lres' = [lres EXCEPT ![c] = "notconn"]
            /\ UNCHANGED <<cmdCounter, respCh, cvars>>
  /\ UNCHANGED <<conn, pending, pendingNil, eventCh, eventChClosed, closeCh,
                 qOnStateChange, qOnEvent, sockvars, rvars, spc, ivars, hvars, wvars, proc,
                 sigPending, iQmp>>

\* Quit: whether it goes on to cleanup: only when Execute returned no error.
QuitCleansUp(res) == res = "return"

\* Execute("quit") has returned: on an error `return nil` at once, else
\* cleanup and return nil.
QuitExecuted(c) ==
  /\ lop[c] = "quit"
  /\ lpc[c] = "exec"
  /\ cpc[c] = "done"
  /\ Returned(c)
  /\ lpc' = [lpc EXCEPT ![c] = IF QuitCleansUp(cres[c]) THEN "cleanup" ELSE "done"]
  /\ lres' = [lres EXCEPT ![c] = "nil"]
  /\ UNCHANGED <<conn, cmdCounter, pending, pendingNil, eventCh, eventChClosed, closeCh,
                 qOnStateChange, qOnEvent, sockvars, rvars, spc, ivars, hvars, wvars, proc,
                 sigPending, iQmp, lop>>

WaitBegin(c) ==
  /\ spc = "returned"
  /\ lpc[c] = "idle"
  /\ scbPend[c] = ""
  /\ lop' = [lop EXCEPT ![c] = "wait"]
  /\ lpc' = [lpc EXCEPT ![c] = "wait"]
  /\ UNCHANGED <<qvars, sockvars, rvars, cvars, spc, ivars, hvars, wvars, proc, sigPending,
                 iQmp, lres>>

\* Wait stops waiting. With a handle it is process.Wait: on a child it blocks
\* until the child has exited and reaps it, on a child already reaped and on
\* a process that is no child it fails at once. Without a handle it polls
\* isProcessAlive, which is false at once. cleanup follows.
WaitOver(c) ==
  /\ lpc[c] = "wait"
  /\ kind = "spawn" => proc /= "running"
  /\ proc' = IF kind = "spawn" /\ proc = "zombie" THEN "gone" ELSE proc
  /\ lres' = [lres EXCEPT ![c] =
       CASE kind = "spawn" -> (IF proc = "zombie" THEN "nil" ELSE "waiterr")
         [] kind = "pid" -> "waiterr"
         [] OTHER -> "nil"]
  /\ lpc' = [lpc EXCEPT ![c] = "cleanup"]
  /\ UNCHANGED <<qvars, sockvars, rvars, cvars, spc, ivars, hvars, wvars, sigPending, iQmp,
                 lop>>

\* The QEMU process exits: killed, or the guest has shut down, or it crashed.
\* Its end of the control socket is closed.
ProcExit ==
  /\ proc = "running"
  /\ proc' = "zombie"
  /\ sigPending' = FALSE
  /\ peerClosed' = TRUE
  /\ UNCHANGED <<qvars, scenario, sockIn, rbuf, srvRecv, srvReplied, srvEvents, rvars,
                 cvars, spc, ivars, hvars, wvars, iQmp, lop, lpc, lres>>

\* A QEMU that is not this program's child is reaped by its own parent.
ParentReap ==
  /\ kind /= "spawn"
  /\ proc = "zombie"
  /\ proc' = "gone"
  /\ UNCHANGED <<qvars, sockvars, rvars, cvars, spc, ivars, hvars, wvars, sigPending, iQmp,
                 lop, lpc, lres>>

InitStop ==
  /\ Started
  /\ kind \in Kinds
  /\ state = StateRunning
  /\ iOnStateChange = TRUE
  /\ qOnEvent = FALSE

\* One goroutine calls Stop, again and again; another calls Wait and
\* ForceStop; QEMU answers, emits SHUTDOWN, exits. The user has installed a
\* state-change callback.
NextStop ==
  \/ StopBegin(1)
  \/ WaitBegin(2)
  \/ ForceStopBegin(2)
  \/ \E c \in Users : StopExecuted(c)
  \/ \E c \in Users : StopTick(c)
  \/ \E c \in Users : StopSlept(c)
  \/ \E c \in Users : StopDeadline(c)
  \/ \E c \in Users : StopCancelled(c)
  \/ \E c \in Users : ForceStopKill(c)
  \/ \E c \in Users : Cleanup(c)
  \/ \E c \in Users : CleanupSetState(c)
  \/ \E c \in Users : UserStateCb(c)
  \/ \E c \in Users : OpReturn(c)
  \/ \E c \in Users : OpForget(c)
  \/ \E c \in Users : WaitOver(c)
  \/ \E c \in Users : ExecRegister(c)
  \/ \E c \in Users : ExecWrite(c)
  \/ \E c \in Users : ExecSelect(c)
  \/ \E c \in Users : ExecDefer(c)
  \/ ReadFill
  \/ ReadLine
  \/ ReadStateCb
  \/ ReadChan
  \/ ReadEventCb
  \/ ReadError
  \/ ReadDeferCloseCh
  \/ ReadDeferEventCh
  \/ ReadDeferPending
  \/ SrvReply({"running"})
  \/ SrvUnsolicited({"SHUTDOWN"}, MaxEvents)
  \/ ProcExit
  \/ ParentReap

SpecStop == InitStop /\ [][NextStop]_vars

\* One goroutine calls Quit, again and again; another calls ForceStop; QEMU
\* answers, may close the connection, exits.
NextQuit ==
  \/ QuitBegin(1)
  \/ ForceStopBegin(2)
  \/ \E c \in Users : QuitExecuted(c)
  \/ \E c \in Users : ForceStopKill(c)
  \/ \E c \in Users : Cleanup(c)
  \/ \E c \in Users : CleanupSetState(c)
  \/ \E c \in Users : UserStateCb(c)
  \/ \E c \in Users : OpReturn(c)
  \/ \E c \in Users : OpForget(c)
  \/ \E c \in Users : ExecRegister(c)
  \/ \E c \in Users : ExecWrite(c)
  \/ \E c \in Users : ExecSelect(c)
  \/ \E c \in Users : ExecDefer(c)
  \/ ReadFill
  \/ ReadLine
  \/ ReadStateCb
  \/ ReadChan
  \/ ReadEventCb
  \/ ReadError
  \/ ReadDeferCloseCh
  \/ ReadDeferEventCh
  \/ ReadDeferPending
  \/ SrvReply({"running"})
  \/ SrvUnsolicited({"SHUTDOWN"}, MaxEvents)
  \/ ProcExit
  \/ ParentReap

SpecQuit == InitStop /\ [][NextQuit]_vars

\* Two goroutines tear the instance down, one by ForceStop and one by Wait,
\* while QEMU emits STOP and SHUTDOWN events that the read loop may still hold
\* when the transport is closed.
NextTeardown ==
  \/ ForceStopBegin(1)
  \/ WaitBegin(2)
  \/ \E c \in Users : ForceStopKill(c)
  \/ \E c \in Users : WaitOver(c)
  \/ \E c \in Users : Cleanup(c)
  \/ \E c \in Users : CleanupSetState(c)
  \/ \E c \in Users : UserStateCb(c)
  \/ \E c \in Users : OpReturn(c)
  \/ \E c \in Users : OpForget(c)
  \/ ReadFill
  \/ ReadLine
  \/ ReadStateCb
  \/ ReadChan
  \/ ReadEventCb
  \/ ReadError
  \/ ReadDeferCloseCh
  \/ ReadDeferEventCh
  \/ ReadDeferPending
  \/ SrvUnsolicited({"SHUTDOWN", "STOP"}, MaxEvents)
  \/ ProcExit
  \/ ParentReap

SpecTeardown == InitStop /\ [][NextTeardown]_vars

\* ------------------------------------------------------- event fan-out
InitFanout ==
  /\ Started
  /\ kind = "spawn"
  /\ state = StateRunning
  /\ iOnStateChange = FALSE
  /\ qOnEvent = FALSE

\* QEMU emits a long run of events while a consumer reads Events() slowly or
\* not at all and the user installs an event callback.
NextFanout ==
  \/ (Len(sockIn) + Len(rbuf) < MaxInFlight /\ SrvUnsolicited({"OTHER"}, MaxFanout))
  \/ ReadFill
  \/ ReadLine
  \/ ReadChan
  \/ ReadEventCb
  \/ (srvEvents <= MaxLate /\ UserSetEventCb)
  \/ (evRead < MaxRecv /\ UserRecvEvent)

SpecFanout == InitFanout /\ [][NextFanout]_vars

\* ------------------------------------------------------ state tracking
\* A running instance on which the user has installed a state-change callback
\* and an event callback.
InitState ==
  /\ Started
  /\ kind = "spawn"
  /\ state = StateRunning
  /\ iOnStateChange = TRUE
  /\ qOnEvent = TRUE

\* QEMU emits any events, in any order; the read loop handles them.
NextState ==
  \/ SrvUnsolicited(EventNames, MaxStateEvents)
  \/ ReadFill
  \/ ReadLine
  \/ ReadStateCb
  \/ ReadChan
  \/ ReadEventCb

SpecState == InitState /\ [][NextState]_vars

\* ================================================================ claims
InProgress == {"write", "wait", "defer"}

ReplyInFlight(id) ==
  \/ \E i \in 1..Len(sockIn) : sockIn[i].t = "reply" /\ sockIn[i].id = id
  \/ \E i \in 1..Len(rbuf) : rbuf[i].t = "reply" /\ rbuf[i].id = id

\* C1: whatever is outstanding and in whatever order QEMU replies, the reply
\* in a caller's sink, and the reply a caller returns with, carries the id the
\* transport assigned to that caller's command.
C1_ReplyCorrelation ==
  \A c \in Callers :
    /\ respCh[c] /= <<>> => Head(respCh[c]).id = cid[c]
    /\ cres[c] \in {"return", "qmperror"} => crep[c].t = "reply" /\ crep[c].id = cid[c]

\* C1 witness: two commands outstanding at once, the later one answered first.
C1_Witness ==
  \E c, d \in Users :
    /\ cid[c] < cid[d]
    /\ cpc[c] = "wait" /\ respCh[c] = <<>>
    /\ cpc[d] = "defer" /\ cres[d] = "return"
    /\ cop[c] = "exec" /\ cop[d] = "fd"

\* C2: the greeting is read before the read loop starts, the loop runs before
\* anything is written, the first command written is qmp_capabilities with id
\* cmd-1, no second command is written (and newQMP does not return the
\* transport) before a successful reply to cmd-1 has been received, and a
\* failed connect leaves the socket closed.
C2_HandshakeState ==
  /\ rpc /= "off" => spc \notin {"greet", "startloop"}
  /\ srvRecv /= <<>> =>
       /\ srvRecv[1] = [id |-> 1, cmd |-> "qmp_capabilities", fd |-> FALSE, name |-> 0]
       /\ rpc /= "off"
  /\ Len(srvRecv) >= 2 => spc \in {"query", "returned"}
  /\ spc = "failed" => conn = "nil" /\ Len(srvRecv) <= 1

C2_HandshakeStep ==
  /\ spc = "negotiate" /\ spc' = "install" =>
       cres[0] = "return" /\ crep[0].t = "reply" /\ crep[0].id = 1 /\ crep[0].ok
  /\ spc = "negotiate" /\ cpc[0] = "done" /\ cres[0] /= "return" /\ spc' /= spc =>
       spc' = "failed" /\ conn' = "nil"

C2_HandshakeOrder == [](C2_HandshakeState) /\ [][C2_HandshakeStep]_vars

\* C2 witness: QEMU answered cmd-1 with an error and the connect failed.
C2_Witness ==
  /\ spc = "failed"
  /\ conn = "nil"
  /\ Len(srvRecv) = 1
  /\ scenario = "normal"
  /\ 1 \in srvReplied
  /\ ~peerClosed

\* C3 (as claimed): when QEMU writes the greeting and the reply to cmd-1 back
\* to back, the reply is not lost: as long as negotiate has not returned, the
\* reply is still to be read, or is in negotiate's sink.
C3_HandshakeRace ==
  (scenario = "race" /\ spc = "negotiate" /\ cpc[0] \in {"idle", "reg", "write", "wait"})
    => (ReplyInFlight(1) \/ respCh[0] /= <<>>)

\* C4 (as claimed): a command that is waiting when the read loop has
\* terminated returns a 'connection closed' error (a timer that expires at
\* that very moment is not held against the claim).
C4_AllClosed ==
  [][\A c \in Users :
       (closeCh /\ cpc[c] = "wait" /\ cpc'[c] = "defer")
         => cres'[c] \in {"closed", "timeout"}]_vars

\* C4 (amended): once the read loop has hit a read error it closes closeCh and
\* the event channel and nils the pending table; every call that starts after
\* that returns 'connection closed'; and no outstanding call stays blocked:
\* the closeCh case of its select is ready, and it returns 'connection closed'
\* unless another case of the select is ready too (the reply already in its
\* sink, or its timer), or its write fails because QEMU has closed its end.
C4_TerminationState ==
  /\ rpc \in {"defer2", "defer3", "done"} => closeCh
  /\ rpc \in {"defer3", "done"} => eventChClosed
  /\ rpc = "done" => pendingNil /\ \A id \in CmdIds : pending[id] = NoCh
  /\ \A c \in Users : closeCh /\ cpc[c] = "wait" => "close" \in SelectCases(c)

C4_TerminationStep ==
  \A c \in Users :
    /\ (rpc = "done" /\ cpc[c] = "reg" /\ cpc'[c] /= "reg") =>
         cpc'[c] = "done" /\ cres'[c] = "closed"
    /\ (closeCh /\ cpc[c] = "wait" /\ cpc'[c] = "defer") =>
         \/ cres'[c] = "closed"
         \/ cres'[c] = "timeout"
         \/ cres'[c] \in {"return", "qmperror"} /\ respCh[c] /= <<>>
    /\ (closeCh /\ cpc[c] = "write" /\ cpc'[c] = "defer") =>
         cres'[c] = IF conn = "nil" THEN "closed" ELSE "writeerr"

C4_Termination == [](C4_TerminationState) /\ [][C4_TerminationStep]_vars

\* C4 witness: the loop has terminated while a command was waiting, and the
\* command has returned 'connection closed'.
C4_Witness ==
  \E c \in Users :
    /\ rpc = "done"
    /\ cpc[c] = "defer"
    /\ cres[c] = "closed"
    /\ \E i \in 1..Len(srvRecv) : srvRecv[i].id = cid[c]

\* C5: the pending table holds only ids of calls in progress, each mapped to
\* the sink of its own call, and a call that has returned (with a reply, a
\* timeout, a write error or 'connection closed') has no entry left; the read
\* loop drops a reply whose id has no entry: it reaches no sink.
C5_PendingState ==
  /\ \A id \in CmdIds :
       pending[id] /= NoCh =>
         cid[pending[id]] = id /\ cpc[pending[id]] \in InProgress
  /\ \A c \in Callers :
       cpc[c] \in {"idle", "done"} => \A id \in CmdIds : pending[id] /= c

C5_LateReplyStep ==
  (/\ rpc = "read"
   /\ rbuf /= <<>>
   /\ rbuf' = Tail(rbuf)
   /\ Head(rbuf).t = "reply"
   /\ \A c \in Callers : ~(cpc[c] \in InProgress /\ cid[c] = Head(rbuf).id))
    => respCh' = respCh /\ cres' = cres /\ crep' = crep

C5_PendingLifetime == [](C5_PendingState) /\ [][C5_LateReplyStep]_vars

\* C5 witness: a call has timed out and returned while its reply is still on
\* its way.
C5_Witness ==
  \E c \in Users :
    /\ cpc[c] = "done"
    /\ cres[c] = "timeout"
    /\ ReplyInFlight(cid[c])
    /\ rpc = "read"

\* C6 (as claimed): every event the read loop receives moves the instance
\* state to the state its name maps to, and an event with any other name
\* leaves the state as it is (stated for a QEMU that answers qmp_capabilities
\* after it has received it).
C6_EventMapping ==
  [][(/\ scenario = "normal"
      /\ rpc = "read"
      /\ rbuf /= <<>>
      /\ rbuf' = Tail(rbuf)
      /\ Head(rbuf).t = "event")
       => state' = IF EventState(Head(rbuf).name) /= ""
                     THEN EventState(Head(rbuf).name)
                     ELSE state]_vars

\* C7 (as claimed): while a state-mapping event is being put on the event
\* channel or handed to the event callback, handleEvent has already passed
\* its state to setState (stated for a QEMU that answers qmp_capabilities
\* after it has received it).
C7_StateBeforeFanout ==
  (scenario = "normal" /\ rpc \in {"chan", "evcb"} /\ EventState(rline.name) /= "")
    => rlast = "applied"

\* C8: the event channel holds events in receive order and never more than
\* 100; the read loop's put never blocks: it appends when there is room and
\* otherwise leaves the channel as it is (the new event is the one dropped);
\* the event callback, once installed, is handed every event, in receive
\* order, whether or not the channel took it.
C8_FanoutState ==
  /\ Len(eventCh) <= EventChCap
  /\ \A i \in 1..(Len(eventCh) - 1) : eventCh[i].n < eventCh[i + 1].n
  /\ \A i \in 1..(Len(evCbLog) - 1) : evCbLog[i + 1].n = evCbLog[i].n + 1
  /\ rpc = "chan" => ENABLED ReadChan

C8_FanoutStep ==
  /\ (rpc = "chan" /\ rpc' /= "chan") =>
       /\ rpc' = "evcb"
       /\ eventCh' = IF Len(eventCh) = EventChCap THEN eventCh ELSE Append(eventCh, rline)
  /\ (rpc = "evcb" /\ rpc' /= "evcb" /\ qOnEvent) => evCbLog' = Append(evCbLog, rline)

C8_Fanout == [](C8_FanoutState) /\ [][C8_FanoutStep]_vars

\* C8 witness: the channel is full with the 100 oldest unread events, a later
\* event was dropped from it, and the callback was handed that event.
C8_Witness ==
  /\ Len(eventCh) = EventChCap
  /\ evCbLog /= <<>>
  /\ evCbLog[Len(evCbLog)].n > eventCh[EventChCap].n
  /\ evRead > 0
  /\ rpc = "read"

\* The states a run of events takes an instance through, starting from cur:
\* one entry for each event that changes the state.
RECURSIVE StateChanges(_, _)
StateChanges(cur, evs) ==
  IF evs = <<>>
    THEN <<>>
    ELSE LET to == EventState(Head(evs).name)
             new == IF to /= "" THEN to ELSE cur
         IN (IF new /= cur THEN <<new>> ELSE <<>>) \o StateChanges(new, Tail(evs))

EventsHandled ==
  IF rpc \in {"chan", "evcb"} THEN Append(evCbLog, rline) ELSE evCbLog

\* C9: the state-change callback is invoked once for each update that changes
\* the state, with the new value, and not for an update to the value the
\* state already has: what it has been handed is the sequence of changes the
\* events handled so far make; for STOP, RESUME, SHUTDOWN on a running
\* instance that is Paused, Running, Shutdown, three invocations.
C9_CallbackState ==
  /\ rpc /= "statecb" => cbLog = StateChanges(StateRunning, EventsHandled)
  /\ rpc = "statecb" =>
       Append(cbLog, scbPend[Reader]) = StateChanges(StateRunning, Append(evCbLog, rline))
  /\ (rpc = "read" /\ [i \in 1..Len(evCbLog) |-> evCbLog[i].name]
                         = <<"STOP", "RESUME", "SHUTDOWN">>)
       => cbLog = <<StatePaused, StateRunning, StateShutdown>>

C9_CallbackStep ==
  /\ state' /= state => scbPend'[Reader] = state' /\ scbPend[Reader] = ""
  /\ (scbPend'[Reader] /= scbPend[Reader] /\ scbPend'[Reader] /= "") => state' /= state
  /\ cbLog' /= cbLog =>
       cbLog' = Append(cbLog, scbPend[Reader]) /\ scbPend'[Reader] = ""

C9_CallbackCount == [](C9_CallbackState) /\ [][C9_CallbackStep]_vars

\* C9 witness: STOP, RESUME, SHUTDOWN were handled in that order and the
\* callback was invoked three times.
C9_Witness ==
  /\ rpc = "read"
  /\ [i \in 1..Len(evCbLog) |-> evCbLog[i].name] = <<"STOP", "RESUME", "SHUTDOWN">>
  /\ Len(cbLog) = 3
  /\ state = StateShutdown

\* C10 (as claimed): when Stop has returned nil the process is not alive to
\* isProcessAlive (a kill still on its way to the process, and a dead process
\* that its own parent is about to reap, are not held against the claim).
C10_StopMeansDead ==
  \A c \in Users :
    (lop[c] = "stop" /\ lpc[c] = "done" /\ lres[c] = "nil")
      => \/ ~IsProcessAlive(kind, proc)
         \/ sigPending
         \/ (kind /= "spawn" /\ proc = "zombie")

\* C11 (as claimed): while Stop waits after an acknowledged system_powerdown,
\* a QEMU process that has exited is not alive to the signal-0 probe, so the
\* next tick runs cleanup and returns nil; for a spawned instance as for an
\* attached one (a dead process that its own parent is about to reap is not
\* held against the claim).
C11_ExitDetected ==
  \A c \in Users :
    (lop[c] = "stop" /\ lpc[c] \in {"loop", "sleep"} /\ proc /= "running")
      => \/ ~IsProcessAlive(kind, proc)
         \/ (kind /= "spawn" /\ proc = "zombie")

\* ------------------------------------------------------------ Claim C12
\* The error results of StopContext. "none": no result yet.
StopErrors == {"execerr", "timeout", "ctxerr"}

C13_QuitCleanedUp ==
  \A c \in Users :
    (lop[c] = "quit" /\ lpc[c] = "done" /\ lres[c] = "nil")
      => /\ ~iQmp
         /\ state = StateShutdown
         /\ ~sockFile

\* ------------------------------------------------------------ Claim C14
\* C14 (as claimed): ForceStop signals a process group only for an instance
\* this program spawned; for an attached instance it signals at most the pid.
C14_GroupOnlySpawned == kind /= "spawn" => "group" \notin sigs

\* ------------------------------------------------------------ Claim C15
\* The operations that end in cleanup on every path.
TeardownOps == {"stop", "force", "wait"}

\* The instance fields as cleanup sets them.
CleanedUp == ~iQmp /\ state = StateShutdown /\ ~sockFile

C15_TeardownState ==
  \A c \in Users :
    /\ (lop[c] \in TeardownOps /\ lpc[c] = "done") => (~iQmp /\ ~sockFile)
    /\ (lop[c] = "force" /\ lpc[c] = "done") => lres[c] = "nil"

\* cleanup's steps: the transport field nil after the first, the state
\* Shutdown after the second, the socket file gone after the third; and a
\* cleanup that runs on an instance already cleaned up changes no field of
\* it, closes nothing and hands nothing to the state-change callback.
C15_TeardownStep ==
  \A c \in Users :
    /\ (lpc[c] = "cleanup" /\ lpc'[c] = "setstate") => ~iQmp'
    /\ (lpc[c] = "setstate" /\ lpc'[c] = "ret") => state' = StateShutdown
    /\ (lpc[c] = "ret" /\ lpc'[c] = "done") => ~sockFile'
    /\ (lpc[c] \in {"cleanup", "setstate", "ret"} /\ lpc'[c] /= lpc[c] /\ CleanedUp)
         => /\ CleanedUp'
            /\ conn' = conn
            /\ scbPend'[c] = ""
            /\ cbLog' = cbLog

C16_AttachedKeepsSocket == kind /= "spawn" => sockFile

\* ------------------------------------------------------- Start and StartVM
\* The spawn entry points.
Entries == {"StartContext", "StartVMContext"}

\* Memory sizes and CPU counts a configuration may carry.
ConfigValues == {-1, 0, 1}

\* Config.Validate: "" for nil.
Validate(memory, cpus) ==
  IF memory <= 0 THEN "memory must be positive"
  ELSE IF cpus <= 0 THEN "CPUs must be positive"
  ELSE ""

\* Whether the entry point calls Validate on its configuration: StartContext
\* does; StartVMContext goes from the nil check to the name and the binary.
Validates(entry) == entry = "StartContext"

\* The entry of StartContext / StartVMContext, up to LocateQemu.
StartEnter ==
  /\ spc = "entry"
  /\ spc' = IF Validates(scfg.entry) /\ Validate(scfg.memory, scfg.cpus) /= ""
              THEN "invalid"
              ELSE "locate"
  /\ UNCHANGED <<qvars, sockvars, rvars, cvars, ivars, hvars, pvars>>

\* LocateQemu and ensureSocketDir: either may fail, and start returns its error.
StartPrepare ==
  /\ spc = "locate"
  /\ \E ok \in BOOLEAN : spc' = IF ok THEN "remove" ELSE "preperr"
  /\ UNCHANGED <<qvars, sockvars, rvars, cvars, ivars, hvars, pvars>>

\* `os.Remove(socketPath)`: the stale socket.
StartRemoveStale ==
  /\ spc = "remove"
  /\ sockFile' = FALSE
  /\ spc' = "launch"
  /\ UNCHANGED <<qvars, sockvars, rvars, cvars, ivars, hvars, kind, sigs, xvars, proc,
                 sigPending, iQmp, lop, lpc, lres>>

\* cmd.Start(): the child runs, or start returns "failed to start QEMU".
StartLaunch ==
  /\ spc = "launch"
  /\ \E ok \in BOOLEAN :
       /\ proc' = IF ok THEN "running" ELSE proc
       /\ spc' = IF ok THEN "waitsock" ELSE "starterr"
  /\ UNCHANGED <<qvars, sockvars, rvars, cvars, ivars, hvars, wvars, sigPending, iQmp,
                 lop, lpc, lres>>

\* QEMU creates its control socket and listens on it.
QemuListen ==
  /\ proc = "running"
  /\ ~sockFile
  /\ sockFile' = TRUE
  /\ UNCHANGED <<qvars, sockvars, rvars, cvars, spc, ivars, hvars, kind, sigs, xvars, proc,
                 sigPending, iQmp, lop, lpc, lres>>

\* net.Dial("unix", path) succeeds: the file is there and QEMU is listening.
DialOK == sockFile /\ proc = "running"

\* A start that fails without killing.
KillOnFailureNever(p) == FALSE

\* `cmd.Process.Kill()` on a failure after the launch: whether the SIGKILL
\* reaches a live process.
KillOnFailure(p) == p = "running"

\* waitForSocket and what StartContext does with its result: a dial succeeded
\* (on to newQMP), or the 10 s passed without one, or ctx was done: kill the
\* child and return "QEMU failed to create socket".
StartWaitForSocket ==
  /\ spc = "waitsock"
  /\ \E out \in {"ok", "timeout", "ctx"} :
       /\ out = "ok" => DialOK
       /\ out = "timeout" => ~DialOK
       /\ IF out = "ok"
            THEN spc' = "dial" /\ UNCHANGED <<sigPending, sigs>>
            ELSE /\ spc' = "sockerr"
                 /\ sigPending' = (sigPending \/ KillOnFailure(proc))
                 /\ sigs' = sigs \cup {"pid"}
  /\ UNCHANGED <<qvars, sockvars, rvars, cvars, ivars, hvars, kind, sockFile, xvars, proc,
                 iQmp, lop, lpc, lres>>

\* newQMP, the dial: on success QEMU sends its greeting (or what the scenario
\* has it send), else newQMP returns the error.
StartDial ==
  /\ spc = "dial"
  /\ IF DialOK
       THEN /\ conn' = "open"
            /\ sockIn' = IF scenario = "junk" THEN <<Junk>> ELSE <<Greeting>>
            /\ spc' = "greet"
       ELSE /\ spc' = "failed"
            /\ UNCHANGED <<conn, sockIn>>
  /\ UNCHANGED <<cmdCounter, pending, pendingNil, respCh, eventCh, eventChClosed, closeCh,
                 qOnStateChange, qOnEvent, scenario, rbuf, peerClosed, srvRecv,
                 srvReplied, srvEvents, rvars, cvars, ivars, hvars, pvars>>

\* newQMP returned an error: kill the child and return "failed to connect QMP".
StartConnectFailed ==
  /\ spc = "failed"
  /\ spc' = "connerr"
  /\ sigPending' = (sigPending \/ KillOnFailure(proc))
  /\ sigs' = sigs \cup {"pid"}
  /\ UNCHANGED <<qvars, sockvars, rvars, cvars, ivars, hvars, kind, sockFile, xvars, proc,
                 iQmp, lop, lpc, lres>>

\* Before a call of Start or StartVM: no child, no connection, maybe a socket
\* file left by an earlier run.
InitSpawn ==
  /\ conn = "nil"
  /\ cmdCounter = 0
  /\ pending = [i \in CmdIds |-> NoCh]
  /\ pendingNil = FALSE
  /\ respCh = [c \in Threads |-> <<>>]
  /\ eventCh = <<>>
  /\ eventChClosed = FALSE
  /\ closeCh = FALSE
  /\ qOnStateChange = FALSE
  /\ qOnEvent = FALSE
  /\ scenario \in {"normal", "junk"}
  /\ sockIn = <<>>
  /\ rbuf = <<>>
  /\ peerClosed = FALSE
  /\ srvRecv = <<>>
  /\ srvReplied = {}
  /\ srvEvents = 0
  /\ rpc = "off"
  /\ rline = NoLine
  /\ rlast = "none"
  /\ cpc = [c \in Threads |-> "idle"]
  /\ cid = [c \in Threads |-> 0]
  /\ cop = [c \in Threads |-> ""]
  /\ cres = [c \in Threads |-> "none"]
  /\ crep = [c \in Threads |-> NoLine]
  /\ spc = "entry"
  /\ kind = "spawn"
  /\ state = InitialState(kind)
  /\ iOnStateChange = FALSE
  /\ scbPend = [t \in Threads |-> ""]
  /\ cbLog = <<>>
  /\ evCbLog = <<>>
  /\ evRead = 0
  /\ proc = "none"
  /\ sigPending = FALSE
  /\ iQmp = FALSE
  /\ lop = [c \in Users |-> ""]
  /\ lpc = [c \in Users |-> "idle"]
  /\ lres = [c \in Users |-> "none"]
  /\ sockFile \in BOOLEAN
  /\ sigs = {}
  /\ \E e \in Entries, m \in ConfigValues, n \in ConfigValues :
       scfg = [entry |-> e, memory |-> m, cpus |-> n, stale |-> sockFile]
  /\ alloc = NoAlloc
  /\ bcfg = NoBuild
  /\ bargs = <<>>
  /\ srvRun = "running"
  /\ cfd = [c \in Users |-> NoFd]
  /\ wr = NoWrites
  /\ sctx = "live"
  /\ pf = NoCall

\* Start / StartVM from the call to its return, with the child, the read loop
\* and QEMU's end of the socket.
NextSpawn ==
  \/ StartEnter
  \/ StartPrepare
  \/ StartRemoveStale
  \/ StartLaunch
  \/ QemuListen
  \/ StartWaitForSocket
  \/ StartDial
  \/ StartConnectFailed
  \/ NewQMPGreeting
  \/ NewQMPStartLoop
  \/ NegotiateBegin
  \/ NegotiateEnd
  \/ InstallBridge
  \/ InitialQueryBegin
  \/ InitialQueryEnd
  \/ ExecRegister(0)
  \/ ExecWrite(0)
  \/ ExecSelect(0)
  \/ ExecDefer(0)
  \/ ReadFill
  \/ ReadLine
  \/ ReadError
  \/ ReadDeferCloseCh
  \/ ReadDeferEventCh
  \/ ReadDeferPending
  \/ SrvReply(SrvStatuses)
  \/ ProcExit

SpecSpawn == InitSpawn /\ [][NextSpawn]_vars

\* ------------------------------------------------------------ Claim C17
\* C17 (as claimed): with memory <= 0 or CPUs <= 0 start fails with the
\* validation error before any I/O: a stale socket file is left as it was and
\* no child is launched, from either entry point.
C17_ValidatesFirst ==
  (scfg.entry \in Entries /\ (scfg.memory <= 0 \/ scfg.cpus <= 0))
    => /\ spc \in {"entry", "invalid"}
       /\ sockFile = scfg.stale
       /\ proc = "none"

\* ------------------------------------------------------------ Claim C18
\* The error returns of start that come after the launch of the child.
SpawnFailures == {"sockerr", "connerr"}

\* C18: when start returns an error after it has launched the child (the
\* socket did not accept a connection in time, the context was done, or the
\* QMP connect or handshake failed) it has killed the child: SIGKILL was sent
\* to it and it has exited or is about to; no instance holds a transport and
\* no connection is left open. An error is returned after the launch on
\* these paths only, and each sends the kill in the same step.
C18_NoChildLeft ==
  /\ [](spc \in SpawnFailures
          => /\ proc /= "none"
             /\ proc /= "running" \/ sigPending
             /\ "pid" \in sigs
             /\ ~iQmp
             /\ conn /= "open")
  /\ [][(proc /= "none" /\ spc' /= spc /\ spc' \notin {"dial", "greet", "startloop",
           "negotiate", "install", "query", "returned", "failed"})
          => (spc' \in SpawnFailures /\ "pid" \in sigs')]_vars

\* The handshake failed on a QEMU that is running: start has returned its
\* error and the SIGKILL is on its way.
C18_Witness ==
  /\ spc = "connerr"
  /\ proc = "running"
  /\ sigPending
  /\ scenario = "junk"

\* ------------------------------------------------------------ Claim C19
\* C19 (as claimed): Wait goes on to cleanup, and returns, only after the
\* QEMU process has terminated; it never runs cleanup while the process is
\* still running.
C19_WaitMeansTerminated ==
  \A c \in Users :
    (lop[c] = "wait" /\ lpc[c] \in {"cleanup", "setstate", "ret", "done"})
      => \/ proc /= "running"
         \/ sigPending

\* ------------------------------------------------ QMP-backed operations
\* The operations of Instance that send one or two QMP commands and return.
FdOps == {"AddVNCClient", "AddSpiceClient"}
PasswordOps == {"SetVNCPassword", "SetSpicePassword", "ExpireVNCPassword",
                "ExpireSpicePassword"}
SentinelOps == {"Reset", "QueryBlockDevices", "SetIOThrottle", "Screendump", "SendKey",
                "HumanMonitorCommand"}
QmpOps == {"QueryState", "Continue", "Pause", "Shutdown"}
            \cup SentinelOps \cup FdOps \cup PasswordOps

\* What an operation returns when `qmp == nil`: ErrNotConnected ("not
\* connected to QEMU") or fmt.Errorf("not connected").
NotConnected(op) == IF op \in SentinelOps THEN "ErrNotConnected" ELSE "notconn"

\* An operation that takes the transport to be there whatever the field says.
ConnectedAlways(q) == TRUE

\* The check every operation starts with, `qmp := i.qmp` under qmpMu and
\* `if qmp == nil { return <not connected> }`: whether it goes on.
Connected(q) == q

\* How the operation's first command is sent (cop of the call).
ExecTag(op) ==
  CASE op = "QueryState" -> "query"
    [] op \in FdOps -> "fd"
    [] op = "Pause" -> "pause"
    [] op = "Continue" -> "cont"
    [] OTHER -> "exec"

\* An operation up to its first command. Without a transport it returns its
\* not-connected error; AddVNCClient / AddSpiceClient first turn the client
\* connection into a descriptor, which may fail.
\* connToFd when it succeeds: a duplicate of the connection's descriptor, owned
\* by the caller; addClientFd names it.
ConnToFd(fdName) == [fd |-> "open", closes |-> 0, name |-> fdName, getfd |-> "none"]

\* A call that returns before it has a descriptor: the fdname of the call
\* before it is kept for the next name.
NoFdAfter(r) == [NoFd EXCEPT !.name = r.name]

\* fdName, "<protocol>-client-<UnixNano>": the clock has moved on since the
\* goroutine's last call.
NextFdName(last) == last + 1

\* closeFd(fd), deferred by AddVNCClient / AddSpiceClient.
CloseFd(r) == [r EXCEPT !.fd = "closed", !.closes = @ + 1]

\* Mutant of FdPassed: addClientFd goes on whatever getfd returned.
FdPassedAlways(res) == TRUE

\* `if err != nil { return ... }` after ExecuteWithFd("getfd"): whether
\* addClientFd goes on to add_client.
FdPassed(res) == res = "return"

QmpOpBeginOf(c, ops) ==
  /\ spc = "returned"
  /\ lpc[c] = "idle"
  /\ scbPend[c] = ""
  /\ \E op \in ops, fdok \in BOOLEAN :
       /\ lop' = [lop EXCEPT ![c] = op]
       /\ op \notin FdOps => fdok
       /\ IF ~Connected(iQmp)
            THEN /\ fdok
                 /\ lpc' = [lpc EXCEPT ![c] = "done"]
                 /\ lres' = [lres EXCEPT ![c] = NotConnected(op)]
                 /\ cfd' = IF op \in FdOps THEN [cfd EXCEPT ![c] = NoFdAfter(@)] ELSE cfd
                 /\ UNCHANGED <<cmdCounter, respCh, cvars>>
            ELSE IF ~fdok
              THEN /\ lpc' = [lpc EXCEPT ![c] = "done"]
                   /\ lres' = [lres EXCEPT ![c] = "fderr"]
                   /\ cfd' = [cfd EXCEPT ![c] = NoFdAfter(@)]
                   /\ UNCHANGED <<cmdCounter, respCh, cvars>>
              ELSE /\ ExecBegin(c, ExecTag(op))
                   /\ lpc' = [lpc EXCEPT ![c] = IF op \in FdOps THEN "execfd" ELSE "exec"]
                   /\ cfd' = IF op \in FdOps
                               THEN [cfd EXCEPT ![c] = ConnToFd(NextFdName(cfd[c].name))]
                               ELSE cfd
                   /\ UNCHANGED lres
  /\ UNCHANGED <<conn, pending, pendingNil, eventCh, eventChClosed, closeCh,
                 qOnStateChange, qOnEvent, sockvars, rvars, spc, ivars, hvars, kind,
                 sockFile, sigs, yvars, proc, sigPending, iQmp>>

QmpOpBegin(c) == QmpOpBeginOf(c, QmpOps)

\* addClientFd: ExecuteWithFd("getfd") has returned; on an error return it.
QmpOpFdPassed(c) ==
  /\ lop[c] \in FdOps
  /\ lpc[c] = "execfd"
  /\ cpc[c] = "done"
  /\ Returned(c)
  /\ IF FdPassed(cres[c])
       THEN /\ lpc' = [lpc EXCEPT ![c] = "addclient"]
            /\ cfd' = [cfd EXCEPT ![c].getfd = IF cres[c] = "return" THEN "ok" ELSE "err"]
            /\ UNCHANGED lres
       ELSE /\ lpc' = [lpc EXCEPT ![c] = "done"]
            /\ lres' = [lres EXCEPT ![c] = "execerr"]
            /\ cfd' = [cfd EXCEPT ![c] = CloseFd([@ EXCEPT !.getfd = "err"])]
  /\ UNCHANGED <<conn, cmdCounter, pending, pendingNil, eventCh, eventChClosed, closeCh,
                 qOnStateChange, qOnEvent, sockvars, rvars, spc, ivars, hvars, kind,
                 sockFile, sigs, yvars, proc, sigPending, iQmp, lop>>

\* addClientFd: Execute("add_client").
QmpOpAddClient(c) ==
  /\ lpc[c] = "addclient"
  /\ ExecBegin(c, "addclient")
  /\ lpc' = [lpc EXCEPT ![c] = "exec"]
  /\ UNCHANGED <<conn, pending, pendingNil, eventCh, eventChClosed, closeCh,
                 qOnStateChange, qOnEvent, sockvars, rvars, spc, ivars, hvars, wvars, proc,
                 sigPending, iQmp, lop, lres>>

\* The operation's last command has returned: its error, or nil; QueryState
\* sets the state from the reply.
QmpOpExecuted(c) ==
  /\ lop[c] \in QmpOps
  /\ lpc[c] = "exec"
  /\ cpc[c] = "done"
  /\ Returned(c)
  /\ lpc' = [lpc EXCEPT ![c] = "done"]
  /\ lres' = [lres EXCEPT ![c] = IF cres[c] = "return" THEN "nil" ELSE "execerr"]
  /\ IF lop[c] = "QueryState" /\ cres[c] = "return"
       THEN SetStateLocked(c, parseQMPStatus(crep[c].name))
       ELSE UNCHANGED <<state, scbPend>>
  /\ cfd' = IF lop[c] \in FdOps THEN [cfd EXCEPT ![c] = CloseFd(@)] ELSE cfd
  /\ UNCHANGED <<conn, cmdCounter, pending, pendingNil, eventCh, eventChClosed, closeCh,
                 qOnStateChange, qOnEvent, sockvars, rvars, spc, iOnStateChange, hvars,
                 kind, sockFile, sigs, yvars, proc, sigPending, iQmp, lop>>

\* One goroutine calls an operation, or Quit; another calls ForceStop, whose
\* cleanup nils the transport field; QEMU answers and may exit.
NextOps ==
  \/ QmpOpBegin(1)
  \/ QuitBegin(1)
  \/ ForceStopBegin(2)
  \/ \E c \in Users : QmpOpFdPassed(c)
  \/ \E c \in Users : QmpOpAddClient(c)
  \/ \E c \in Users : QmpOpExecuted(c)
  \/ \E c \in Users : QuitExecuted(c)
  \/ \E c \in Users : ForceStopKill(c)
  \/ \E c \in Users : Cleanup(c)
  \/ \E c \in Users : CleanupSetState(c)
  \/ \E c \in Users : UserStateCb(c)
  \/ \E c \in Users : OpReturn(c)
  \/ \E c \in Users : ExecRegister(c)
  \/ \E c \in Users : ExecWrite(c)
  \/ \E c \in Users : ExecSelect(c)
  \/ \E c \in Users : ExecDefer(c)
  \/ ReadFill
  \/ ReadLine
  \/ ReadError
  \/ ReadDeferCloseCh
  \/ ReadDeferEventCh
  \/ ReadDeferPending
  \/ SrvReply(SrvStatuses)
  \/ ProcExit

SpecOps == InitStop /\ [][NextOps]_vars

\* ------------------------------------------------------------ Claim C20
\* The not-connected errors.
NotConnErrors == {"notconn", "ErrNotConnected"}

\* An operation called with the transport field nil: it returns in that step
\* with a not-connected error, takes no command id, registers and writes
\* nothing, and leaves the state and the pending callback as they were.
C20_NilStep ==
  \A c \in Users :
    (lpc[c] = "idle" /\ lpc'[c] /= "idle" /\ lop'[c] \in QmpOps \cup {"quit"} /\ ~iQmp)
      => /\ lpc'[c] = "done"
         /\ lres'[c] \in NotConnErrors
         /\ cpc'[c] = "idle"
         /\ cmdCounter' = cmdCounter
         /\ srvRecv' = srvRecv
         /\ pending' = pending
         /\ conn' = conn
         /\ state' = state
         /\ scbPend' = scbPend

\* C20: once the transport field is nil every QMP-backed operation returns a
\* not-connected error, writes nothing to the socket and leaves the instance
\* state unchanged; and a not-connected error is returned in that case only.
C20_NotConnected ==
  /\ [](\A c \in Users : (lpc[c] = "done" /\ lres[c] \in NotConnErrors) => ~iQmp)
  /\ [][C20_NilStep]_vars

\* SendKey was called after ForceStop had run cleanup and has returned
\* ErrNotConnected.
C20_Witness ==
  /\ lop[1] = "SendKey" /\ lpc[1] = "done" /\ lres[1] = "ErrNotConnected"
  /\ lop[2] = "force" /\ lpc[2] = "done"
  /\ ~iQmp

\* ------------------------------------------------------ pciSlotAllocator
\* The rest of the program while a function of the argument composer is
\* looked at on its own: an instance that is started and left alone.
Quiet ==
  /\ StartedCore
  /\ kind = "spawn"
  /\ state = StateRunning
  /\ iOnStateChange = FALSE
  /\ qOnEvent = FALSE

\* The number of Alloc calls looked at.
MaxAllocs == 30

\* The last PCI slot, 0x1f.
LastSlot == 31

\* The slots passed to Reserve.
ReserveSlots == {5, 31}

\* newPCISlotAllocator.
NewPCISlotAllocator(isQ35) ==
  [q35 |-> isQ35, nextSlot |-> 3, used |-> IF isQ35 THEN {0, 1, 2} ELSE {0},
   out |-> <<>>, panicked |-> FALSE]

\* The loop of Alloc, `for a.used[a.nextSlot] { a.nextSlot++; if a.nextSlot >
\* 0x1f { panic } }`: the slot it stops at, -1 for the panic.
RECURSIVE AllocLoop(_, _)
AllocLoop(n, used) ==
  IF n \in used
    THEN (IF n + 1 > LastSlot THEN -1 ELSE AllocLoop(n + 1, used))
    ELSE n

\* Alloc as a function of the allocator: a panic leaves it as it was.
AllocStep(a) ==
  LET slot == AllocLoop(a.nextSlot, a.used)
  IN IF slot = -1
       THEN [a EXCEPT !.panicked = TRUE]
       ELSE [a EXCEPT !.used = @ \cup {slot}, !.nextSlot = slot + 1,
                      !.out = Append(@, slot)]

\* Alloc.
Alloc ==
  /\ ~alloc.panicked
  /\ Len(alloc.out) < MaxAllocs
  /\ alloc' = AllocStep(alloc)
  /\ UNCHANGED <<qvars, sockvars, rvars, cvars, spc, ivars, hvars, kind, sockFile, sigs,
                 scfg, bvars, srvRun, cfd, mvars, proc, sigPending, iQmp, lop, lpc, lres>>

\* Reserve(slot).
Reserve ==
  /\ ~alloc.panicked
  /\ \E slot \in ReserveSlots :
       /\ slot \notin alloc.used
       /\ alloc' = [alloc EXCEPT !.used = @ \cup {slot}]
  /\ UNCHANGED <<qvars, sockvars, rvars, cvars, spc, ivars, hvars, kind, sockFile, sigs,
                 scfg, bvars, srvRun, cfd, mvars, proc, sigPending, iQmp, lop, lpc, lres>>

InitAlloc ==
  /\ Quiet
  /\ scfg = NoStart
  /\ bcfg = NoBuild
  /\ bargs = <<>>
  /\ srvRun = "running"
  /\ cfd = [c \in Users |-> NoFd]
  /\ wr = NoWrites
  /\ sctx = "live"
  /\ pf = NoCall
  /\ \E isQ35 \in BOOLEAN : alloc = NewPCISlotAllocator(isQ35)

\* Any sequence of Alloc and Reserve calls on a fresh allocator.
NextAlloc == Alloc \/ Reserve

SpecAlloc == InitAlloc /\ [][NextAlloc]_vars

\* ------------------------------------------------------------ Claim C21
\* C21 (as claimed): on a Q35 allocator the slots Alloc has returned are
\* pairwise distinct and lie in [3, 31], and the first two are 0x3 and 0x4.
C21_SlotsInRange ==
  alloc.q35 =>
    /\ \A i \in 1..Len(alloc.out) : alloc.out[i] \in 3..LastSlot
    /\ \A i, j \in 1..Len(alloc.out) : i /= j => alloc.out[i] /= alloc.out[j]
    /\ Len(alloc.out) >= 2 => (alloc.out[1] = 3 /\ alloc.out[2] = 4)

\* ------------------------------------------------------------ the composer
\* Calls of the composer on one input that are looked at.
MaxBuilds == 2

ComposerEntries == {"Build", "buildArgs"}
Names == {"", "vm"}
SocketPaths == {"", "/run/vm.sock"}
MachineTypes == {"", "q35", "pc"}

\* The inputs of the composer: presence of each part of the configuration.
\* The parts every input here has are fixed, the others vary.
BuildInputs ==
  [entry : ComposerEntries, name : Names, socketPath : SocketPaths,
   machine : MachineTypes, noDefaults : BOOLEAN, efi : {TRUE}, cpu : {TRUE},
   memlock : {TRUE}, boot : {TRUE}, secret : {TRUE}, display : {"", "vnc"},
   video : BOOLEAN, audio : {TRUE}, cdrom : BOOLEAN, disk : BOOLEAN, net : BOOLEAN,
   vserial : {FALSE}, serial : {TRUE}, chardev : {TRUE}, usb : {TRUE},
   balloon : {TRUE}, spice : {TRUE}, extra : BOOLEAN]

\* One argument of the list: the group of the output order it belongs to, the
\* flag, the parts of its value, and the PCI slot written into the value.
Arg(g, f, v) == [grp |-> g, flag |-> f, val |-> v, addr |-> -1]

\* Bus().
Bus(a) == IF a.q35 THEN "pcie.0" ELSE "pci.0"

\* b.args = append(b.args, ...).
Put(st, a) == [st EXCEPT !.args = Append(@, a)]

\* A -device argument with bus=Bus() and addr=Alloc().
PutPci(st, g, dev) ==
  LET a2 == AllocStep(st.al)
  IN [args |-> Append(st.args,
                 [grp |-> g, flag |-> "-device", val |-> <<dev, "bus=", Bus(st.al)>>,
                  addr |-> IF a2.panicked THEN -1 ELSE a2.out[Len(a2.out)]]),
      al |-> a2]

\* The two arguments of the QMP control socket.
QmpChardev(path) ==
  Arg("qmp", "-chardev", <<"socket,id=qmp,path=", path, ",server=on,wait=off">>)
\* A monitor on the same chardev that speaks the human monitor protocol.
QmpMonReadline == Arg("qmp", "-mon", <<"chardev=qmp,id=monitor,mode=readline">>)
QmpMon == Arg("qmp", "-mon", <<"chardev=qmp,id=monitor,mode=control">>)

\* NewVMBuilder: the machine is Q35 when its type says so, or by default on x86.
IsQ35(c) == c.machine \in {"", "q35"}

\* The extra arguments put in front of the list.
ExtraArgsFirst(c, st) ==
  IF c.extra THEN [st EXCEPT !.args = <<Arg("extra", "-extra", <<>>)>> \o @] ELSE st

\* append(args, cfg.ExtraArgs...), the last step of both composers.
ExtraArgs(c, st) == IF c.extra THEN Put(st, Arg("extra", "-extra", <<>>)) ELSE st

\* VMBuilder.Build on a builder whose allocator is a, with the build functions
\* it calls: the argument list and the allocator it leaves behind.
Build(c, a) ==
  LET
      buildMachine(st) ==
        IF c.machine /= "" THEN Put(st, Arg("machine", "-machine", <<c.machine>>))
        ELSE Put(st, Arg("machine", "-machine", <<"q35,accel=kvm">>))
      buildEFI(st) ==
        IF c.efi
          THEN Put(Put(st, Arg("efi", "-blockdev", <<"pflash0-file">>)),
                   Arg("efi", "-blockdev", <<"pflash0">>))
          ELSE st
      buildCPU(st) ==
        IF c.cpu
          THEN Put(Put(Put(st, Arg("cpu", "-cpu", <<"model">>)), Arg("cpu", "-m", <<"size">>)),
                   Arg("cpu", "-smp", <<"total">>))
          ELSE Put(Put(st, Arg("cpu", "-cpu", <<"host">>)), Arg("cpu", "-m", <<"512">>))
      buildMemory(st) ==
        IF c.memlock THEN Put(st, Arg("cpu", "-overcommit", <<"mem-lock=on">>)) ELSE st
      buildRTC(st) == Put(st, Arg("rtc", "-rtc", <<"base=utc,driftfix=slew">>))
      buildBoot(st) == IF c.boot THEN Put(st, Arg("boot", "-boot", <<"order">>)) ELSE st
      buildSecrets(st) ==
        IF c.secret THEN Put(st, Arg("secrets", "-object", <<"secret,id=sec0">>)) ELSE st
      buildDisplay(st) ==
        LET s1 == IF c.display = "vnc" THEN Put(st, Arg("display", "-vnc", <<"listen">>)) ELSE st
            s2 == Put(s1, Arg("display", "-display", <<"none">>))
        IN IF c.display /= "" /\ c.video THEN PutPci(s2, "display", "virtio-vga") ELSE s2
      buildAudio(st) ==
        IF c.audio
          THEN PutPci(Put(st, Arg("audio", "-audiodev", <<"none,id=audio0">>)), "audio", "ich9-intel-hda")
          ELSE st
      buildControlSocket(st) ==
        IF c.socketPath = "" THEN st ELSE Put(Put(st, QmpChardev(c.socketPath)), QmpMon)
      buildSATAController(st) == IF c.cdrom THEN PutPci(st, "sata", "ich9-ahci") ELSE st
      buildDisks(st) ==
        IF c.disk
          THEN PutPci(Put(Put(st, Arg("disks", "-blockdev", <<"disk0-file">>)),
                          Arg("disks", "-blockdev", <<"disk0">>)), "disks", "virtio-blk-pci")
          ELSE st
      buildCDROMs(st) ==
        IF c.cdrom
          THEN Put(Put(st, Arg("cdroms", "-drive", <<"cdrom0">>)),
                   Arg("cdroms", "-device", <<"ide-cd,bus=sata.0">>))
          ELSE st
      buildNetworks(st) ==
        IF c.net
          THEN PutPci(Put(st, Arg("networks", "-netdev", <<"user,id=net0">>)), "networks", "virtio-net-pci")
          ELSE st
      buildVirtioSerial(st) ==
        IF c.vserial \/ c.chardev THEN PutPci(st, "vserial", "virtio-serial-pci") ELSE st
      buildSerials(st) ==
        IF c.serial
          THEN Put(Put(st, Arg("serials", "-chardev", <<"pty,id=serial0">>)),
                   Arg("serials", "-device", <<"isa-serial,chardev=serial0">>))
          ELSE st
      buildChardevs(st) ==
        IF c.chardev THEN Put(st, Arg("chardevs", "-chardev", <<"socket,id=ch0">>)) ELSE st
      buildUSB(st) == IF c.usb THEN PutPci(st, "usb", "qemu-xhci") ELSE st
      buildBalloon(st) == IF c.balloon THEN PutPci(st, "balloon", "virtio-balloon-pci") ELSE st
      buildMiscDevices(st) ==
        PutPci(Put(st, Arg("rng", "-object", <<"rng-random,id=rng0,filename=/dev/urandom">>)),
               "rng", "virtio-rng-pci,rng=rng0")
      s0  == [args |-> <<>>, al |-> a]
      s1  == IF c.name /= ""
               THEN Put(s0, Arg("name", "-name", <<"guest=", c.name, ",debug-threads=on">>))
               ELSE s0
      s2  == IF c.noDefaults
               THEN Put(Put(s1, Arg("nodefaults", "-no-user-config", <<>>)),
                        Arg("nodefaults", "-nodefaults", <<>>))
               ELSE s1
      s3  == buildCPU(buildEFI(buildMachine(s2)))
      s4  == buildSecrets(buildBoot(buildRTC(buildMemory(s3))))
      s5  == buildControlSocket(buildAudio(buildDisplay(s4)))
      s6  == buildCDROMs(buildDisks(buildSATAController(s5)))
      s7  == buildSerials(buildVirtioSerial(buildNetworks(s6)))
      s8  == buildBalloon(buildUSB(buildChardevs(s7)))
  IN ExtraArgs(c, buildMiscDevices(s8))

\* buildArgs, the composer of Start: no PCI slots.
buildArgs(c) ==
  LET s0 == [args |-> <<>>, al |-> NoAlloc]
      s1 == Put(Put(s0, Arg("name", "-name", <<"guest=", c.name, ",debug-threads=on">>)),
                Arg("display", "-display", <<"none">>))
      s2 == IF c.noDefaults
              THEN Put(Put(s1, Arg("nodefaults", "-no-user-config", <<>>)),
                       Arg("nodefaults", "-nodefaults", <<>>))
              ELSE s1
      s3 == IF c.machine /= "" THEN Put(s2, Arg("machine", "-machine", <<c.machine, ",accel=kvm">>))
            ELSE Put(s2, Arg("machine", "-machine", <<"q35", ",accel=kvm">>))
      s4 == Put(Put(s3, Arg("cpu", "-cpu", <<"host">>)), Arg("cpu", "-m", <<"memory">>))
      s5 == IF c.cpu THEN Put(s4, Arg("cpu", "-smp", <<"cpus">>)) ELSE s4
      s6 == Put(Put(s5, QmpChardev(c.socketPath)), QmpMon)
      s7 == IF c.disk THEN Put(s6, Arg("disks", "-drive", <<"file=">>)) ELSE s6
      s8 == IF c.net
              THEN Put(Put(s7, Arg("networks", "-netdev", <<"user,id=net0">>)),
                       Arg("networks", "-device", <<"virtio-net-pci,netdev=net0">>))
              ELSE s7
      s9 == IF c.display = "vnc" THEN Put(s8, Arg("display", "-vnc", <<"listen">>)) ELSE s8
      s10 == IF c.spice THEN Put(s9, Arg("display", "-spice", <<"port">>)) ELSE s9
  IN ExtraArgs(c, s10).args

\* builder.Build(name, socketPath) on the builder at hand.
BuildCall ==
  /\ bcfg.entry = "Build"
  /\ Len(bargs) < MaxBuilds
  /\ ~alloc.panicked
  /\ LET r == Build(bcfg, alloc)
     IN /\ bargs' = Append(bargs, r.args)
        /\ alloc' = r.al
  /\ UNCHANGED <<qvars, sockvars, rvars, cvars, spc, ivars, hvars, kind, sockFile, sigs,
                 scfg, bcfg, srvRun, cfd, mvars, proc, sigPending, iQmp, lop, lpc, lres>>

\* NewVMBuilder(cfg) again: a fresh builder for the same configuration.
NewVMBuilder ==
  /\ bcfg.entry = "Build"
  /\ bargs /= <<>>
  /\ Len(bargs) < MaxBuilds
  /\ alloc /= NewPCISlotAllocator(IsQ35(bcfg))
  /\ alloc' = NewPCISlotAllocator(IsQ35(bcfg))
  /\ UNCHANGED <<qvars, sockvars, rvars, cvars, spc, ivars, hvars, kind, sockFile, sigs,
                 scfg, bvars, srvRun, cfd, mvars, proc, sigPending, iQmp, lop, lpc, lres>>

\* buildArgs(cfg, name, socketPath).
BuildArgsCall ==
  /\ bcfg.entry = "buildArgs"
  /\ Len(bargs) < MaxBuilds
  /\ bargs' = Append(bargs, buildArgs(bcfg))
  /\ UNCHANGED <<qvars, sockvars, rvars, cvars, spc, ivars, hvars, kind, sockFile, sigs,
                 scfg, alloc, bcfg, srvRun, cfd, mvars, proc, sigPending, iQmp, lop, lpc, lres>>

InitBuild ==
  /\ Quiet
  /\ scfg = NoStart
  /\ bcfg \in BuildInputs
  /\ bargs = <<>>
  /\ srvRun = "running"
  /\ cfd = [c \in Users |-> NoFd]
  /\ wr = NoWrites
  /\ sctx = "live"
  /\ pf = NoCall
  /\ alloc = IF bcfg.entry = "Build" THEN NewPCISlotAllocator(IsQ35(bcfg)) ELSE NoAlloc

\* The composer called up to MaxBuilds times on one input.
NextBuild == BuildCall \/ NewVMBuilder \/ BuildArgsCall

SpecBuild == InitBuild /\ [][NextBuild]_vars

\* ------------------------------------------------------------ Claim C22
\* C22 (as claimed): every call of the composer on the same configuration,
\* name and socket path returns the same argument list, bus and addr of
\* every device included, on a fresh builder or on the same one.
C22_SameOutput ==
  \A i, j \in 1..Len(bargs) : bargs[i] = bargs[j]

\* ------------------------------------------------------------ Claim C23
\* Positions of the list where the QMP chardev is followed at once by the
\* monitor.
QmpPairsAt(args, path) ==
  {i \in 1..(Len(args) - 1) : args[i] = QmpChardev(path) /\ args[i + 1] = QmpMon}

C23_Pairs(args, path) ==
  {i \in 1..(Len(args) - 1) :
     /\ args[i].flag = "-chardev"
     /\ args[i].val = <<"socket,id=qmp,path=", path, ",server=on,wait=off">>
     /\ args[i + 1].flag = "-mon"
     /\ args[i + 1].val = <<"chardev=qmp,id=monitor,mode=control">>}

\* Positions of the arguments that are a chardev with id=qmp or a monitor.
C23_QmpArgs(args) ==
  {i \in 1..Len(args) :
     \/ args[i].flag = "-mon"
     \/ args[i].flag = "-chardev" /\ args[i].val[1] = "socket,id=qmp,path="}

GroupOrder ==
  <<"name", "nodefaults", "machine", "efi", "cpu", "rtc", "boot", "secrets", "display",
    "audio", "qmp", "sata", "disks", "cdroms", "networks", "vserial", "serials",
    "chardevs", "usb", "balloon", "rng", "extra">>

Rank(g) == CHOOSE r \in 1..Len(GroupOrder) : GroupOrder[r] = g

\* C24 (as claimed): in every argument list composed for a spawn each group
\* that is present lies entirely before the next one of the fixed order.
C24_GroupsInOrder ==
  \A k \in 1..Len(bargs) :
    \A i, j \in 1..Len(bargs[k]) :
      i < j => Rank(bargs[k][i].grp) <= Rank(bargs[k][j].grp)

\* The list without its display arguments.
C24_NoDisplay(args) == SelectSeq(args, LAMBDA a : a.grp /= "display")

\* C24 (amended): in every argument list VMBuilder.Build composes each group
\* that is present lies entirely before the next one of the fixed order;
\* buildArgs keeps that order for the groups it has except for the display:
\* -display none comes second, right after -name, and -vnc and -spice come
\* after the networks and before the extra arguments.
C24_BuildInOrder ==
  \A k \in 1..Len(bargs) :
    LET l == bargs[k]
        o == C24_NoDisplay(l)
    IN IF bcfg.entry = "Build"
         THEN \A i, j \in 1..Len(l) : i < j => Rank(l[i].grp) <= Rank(l[j].grp)
         ELSE /\ \A i, j \in 1..Len(o) : i < j => Rank(o[i].grp) <= Rank(o[j].grp)
              /\ l[1].flag = "-name"
              /\ l[2].flag = "-display"
              /\ \A i \in 3..Len(l) :
                   l[i].grp = "display" =>
                     /\ l[i].flag \in {"-vnc", "-spice"}
                     /\ \A j \in 1..Len(l) :
                          /\ l[j].grp = "extra" => i < j
                          /\ l[j].grp \notin {"display", "extra"} => j < i

\* Build has composed a list with the optional groups all present: name,
\* no-defaults, display with a video device, SATA controller, disks, CD-ROMs,
\* networks, extra arguments.
C24_Witness ==
  /\ bcfg.entry = "Build"
  /\ bargs /= <<>>
  /\ {"name", "nodefaults", "display", "qmp", "sata", "disks", "cdroms", "networks",
      "extra"} \subseteq {bargs[1][i].grp : i \in 1..Len(bargs[1])}
  /\ bargs[1][Len(bargs[1])].grp = "extra"
  /\ \E i \in 1..Len(bargs[1]) : bargs[1][i].val = <<"virtio-vga", "bus=", "pcie.0">>

\* ------------------------------------------------------ Pause / Continue
PauseOps == {"Pause", "Continue"}

\* QEMU's monitor executes the oldest command it has not answered, a stop or
\* a cont: when the run state changes it emits STOP or RESUME and then the
\* reply; a command that changes nothing, or fails, is answered only.
SrvExec ==
  /\ ~peerClosed
  /\ \E i \in 1..Len(srvRecv), ok \in BOOLEAN :
       /\ srvRecv[i].id \notin srvReplied
       /\ \A j \in 1..(i - 1) : srvRecv[j].id \in srvReplied
       /\ srvRecv[i].cmd \in {"stop", "cont"}
       /\ LET to == IF srvRecv[i].cmd = "stop" THEN "paused" ELSE "running"
              changes == ok /\ srvRun /= to
              ev == EventLine(IF to = "paused" THEN "STOP" ELSE "RESUME", srvEvents + 1)
          IN /\ srvRun' = IF ok THEN to ELSE srvRun
             /\ srvEvents' = IF changes THEN srvEvents + 1 ELSE srvEvents
             /\ sockIn' = (IF changes THEN Append(sockIn, ev) ELSE sockIn)
                            \o <<Reply(srvRecv[i].id, ok, "")>>
       /\ srvReplied' = srvReplied \cup {srvRecv[i].id}
  /\ UNCHANGED <<qvars, scenario, rbuf, peerClosed, srvRecv, rvars, cvars, spc, ivars,
                 hvars, kind, sockFile, sigs, scfg, alloc, bvars, cfd, mvars, proc,
                 sigPending, iQmp, lop, lpc, lres>>

InitPause ==
  /\ InitStop
  /\ kind = "spawn"

\* One goroutine calls Pause and Continue, in any order, one call after the
\* other; QEMU executes them; the read loop handles STOP and RESUME.
NextPause ==
  \/ QmpOpBeginOf(1, PauseOps)
  \/ \E c \in Users : QmpOpExecuted(c)
  \/ \E c \in Users : OpForget(c)
  \/ \E c \in Users : ExecRegister(c)
  \/ \E c \in Users : ExecWrite(c)
  \/ \E c \in Users : ExecSelect(c)
  \/ \E c \in Users : ExecDefer(c)
  \/ ReadFill
  \/ ReadLine
  \/ ReadStateCb
  \/ ReadChan
  \/ ReadEventCb
  \/ SrvExec

SpecPause == InitPause /\ [][NextPause]_vars

\* ------------------------------------------------------------ Claim C25
\* C25: when Pause has returned nil the observed state is Paused, and when
\* Continue has returned nil it is Running: a successful Pause followed by a
\* successful Continue takes a Running instance to Paused and back to Running.
C25_PauseContinue ==
  \A c \in Users :
    (lpc[c] = "done" /\ lres[c] = "nil") =>
      /\ lop[c] = "Pause" => state = StatePaused
      /\ lop[c] = "Continue" => state = StateRunning

\* Continue has returned nil after a Pause that QEMU executed: STOP and RESUME
\* have both been handled and the state is Running again.
C25_Witness ==
  /\ lpc[1] = "done" /\ lres[1] = "nil" /\ lop[1] = "Continue"
  /\ srvEvents >= 2
  /\ Len(cbLog) >= 2 /\ cbLog[1] = StatePaused /\ cbLog[2] = StateRunning
  /\ state = StateRunning

\* ------------------------------------------------- AddVNCClient / AddSpiceClient
\* One goroutine calls AddVNCClient / AddSpiceClient, one call after the
\* other; another calls ForceStop, which closes the transport; QEMU answers
\* with a result or an error and may exit.
NextFd ==
  \/ QmpOpBeginOf(1, FdOps)
  \/ OpForget(1)
  \/ ForceStopBegin(2)
  \/ \E c \in Users : QmpOpFdPassed(c)
  \/ \E c \in Users : QmpOpAddClient(c)
  \/ \E c \in Users : QmpOpExecuted(c)
  \/ \E c \in Users : ForceStopKill(c)
  \/ \E c \in Users : Cleanup(c)
  \/ \E c \in Users : CleanupSetState(c)
  \/ \E c \in Users : UserStateCb(c)
  \/ \E c \in Users : OpReturn(c)
  \/ \E c \in Users : ExecRegister(c)
  \/ \E c \in Users : ExecWrite(c)
  \/ \E c \in Users : ExecSelect(c)
  \/ \E c \in Users : ExecDefer(c)
  \/ ReadFill
  \/ ReadLine
  \/ ReadError
  \/ ReadDeferCloseCh
  \/ ReadDeferEventCh
  \/ ReadDeferPending
  \/ SrvReply(SrvStatuses)
  \/ ProcExit

SpecFd == InitStop /\ [][NextFd]_vars

\* ------------------------------------------------------------ Claim C26
\* What QEMU has been sent: every add_client names a descriptor that an
\* earlier getfd carried and that getfd has been answered; every getfd
\* carries a descriptor; no two getfd use the same fdname.
C26_WireOrder ==
  /\ \A j \in 1..Len(srvRecv) :
       srvRecv[j].cmd = "add_client" =>
         /\ \E i \in 1..(j - 1) :
              /\ srvRecv[i].cmd = "getfd" /\ srvRecv[i].fd
              /\ srvRecv[i].name = srvRecv[j].name
              /\ srvRecv[i].id \in srvReplied
  /\ \A i, j \in 1..Len(srvRecv) :
       (i /= j /\ srvRecv[i].cmd = "getfd" /\ srvRecv[j].cmd = "getfd")
         => srvRecv[i].name /= srvRecv[j].name
  /\ \A i \in 1..Len(srvRecv) : srvRecv[i].cmd = "getfd" => srvRecv[i].fd

\* The caller's side: after a failed getfd no add_client is sent and the call
\* returns the error; the descriptor is open while the call runs and has
\* been closed exactly once when the call has returned.
C26_CallerSide ==
  \A c \in Users :
    /\ cfd[c].getfd = "err" =>
         /\ \A j \in 1..Len(srvRecv) :
              ~(srvRecv[j].cmd = "add_client" /\ srvRecv[j].name = cfd[c].name)
         /\ lop[c] \in FdOps => (lpc[c] = "done" /\ lres[c] = "execerr")
    /\ cfd[c].closes <= 1
    /\ (lop[c] \in FdOps /\ lpc[c] \in {"execfd", "addclient", "exec"})
         => (cfd[c].fd = "open" /\ cfd[c].closes = 0)
    /\ (lop[c] \in FdOps /\ lpc[c] = "done" /\ cfd[c].fd /= "none")
         => (cfd[c].fd = "closed" /\ cfd[c].closes = 1)

\* The descriptor is closed by the return of AddVNCClient / AddSpiceClient
\* only: no step of the transport closes it.
C26_CloseStep ==
  \A c \in Users :
    cfd'[c].closes > cfd[c].closes =>
      /\ lpc[c] \in {"execfd", "exec"} /\ lpc'[c] = "done"
      /\ cpc[c] = "done"

\* add_client is written by a caller whose getfd has returned success, with
\* the fdname of that getfd, while its descriptor is open.
C26_SendStep ==
  (Len(srvRecv') > Len(srvRecv) /\ srvRecv'[Len(srvRecv')].cmd = "add_client") =>
    \E c \in Users :
      /\ cpc[c] = "write" /\ cpc'[c] = "wait" /\ lop[c] \in FdOps
      /\ cfd[c].getfd = "ok" /\ cfd[c].fd = "open"
      /\ cfd[c].name = srvRecv'[Len(srvRecv')].name

\* C26: AddVNCClient / AddSpiceClient send getfd with the descriptor and a
\* fresh fdname first and add_client with the same fdname only after getfd has
\* returned success; when getfd fails add_client is not sent and the error is
\* returned; the transport never closes the descriptor, and the caller's
\* duplicate is closed exactly once on every path.
C26_FdProtocol ==
  [](C26_WireOrder /\ C26_CallerSide) /\ [][C26_CloseStep /\ C26_SendStep]_vars

\* A call has sent getfd and then add_client with the same fdname and has
\* returned nil, the descriptor closed once.
C26_Witness ==
  /\ lop[1] \in FdOps /\ lpc[1] = "done" /\ lres[1] = "nil"
  /\ cfd[1] = [fd |-> "closed", closes |-> 1, name |-> 1, getfd |-> "ok"]
  /\ \E i, j \in 1..Len(srvRecv) :
       /\ i < j
       /\ srvRecv[i].cmd = "getfd" /\ srvRecv[i].fd /\ srvRecv[i].name = 1
       /\ srvRecv[j].cmd = "add_client" /\ srvRecv[j].name = 1

\* ------------------------------------------------- the write, step by step
\* The variables a step of the write or of Close leaves alone besides the
\* transport's.
nowr == <<kind, sockFile, sigs, scfg, alloc, bvars, srvRun, cfd, pf, sctx, proc, sigPending,
          iQmp, lop, lpc, lres>>

\* Mutant of MuFree: Lock returns whoever holds the mutex.
MuFreeAlways(mu) == TRUE

\* q.connMu.Lock() returns when nobody holds the mutex.
MuFree(mu) == mu = "free"

\* `q.connMu.Lock()` of Execute / ExecuteWithFd.
WriteLock(c) ==
  /\ cpc[c] = "write"
  /\ MuFree(wr.mu)
  /\ wr' = [wr EXCEPT !.mu = "writer"]
  /\ cpc' = [cpc EXCEPT ![c] = "locked"]
  /\ UNCHANGED <<qvars, sockvars, rvars, cid, cop, cres, crep, spc, ivars, hvars, nowr>>

\* Under the mutex: the nil check, then the first write to the socket.
\* conn.Write may take more than one write(2) for a line, Sendmsg is one call.
WriteFirst(c) ==
  /\ cpc[c] = "locked"
  /\ IF conn = "nil" \/ peerClosed
       THEN /\ cres' = [cres EXCEPT ![c] = IF conn = "nil" THEN "closed" ELSE "writeerr"]
            /\ cpc' = [cpc EXCEPT ![c] = "defer"]
            /\ wr' = [wr EXCEPT !.mu = "free"]
            /\ UNCHANGED srvRecv
       ELSE IF cop[c] = "fd"
         THEN /\ wr' = [wr EXCEPT !.wire = @ \o <<[id |-> cid[c], part |-> 1],
                                                  [id |-> cid[c], part |-> 2]>>]
              /\ srvRecv' = Append(srvRecv,
                     [id |-> cid[c], cmd |-> CmdOf(cop[c]), fd |-> TRUE,
                      name |-> cfd[c].name])
              /\ cpc' = [cpc EXCEPT ![c] = "unlock"]
              /\ UNCHANGED cres
         ELSE /\ wr' = [wr EXCEPT !.wire = Append(@, [id |-> cid[c], part |-> 1])]
              /\ cpc' = [cpc EXCEPT ![c] = "writing"]
              /\ UNCHANGED <<cres, srvRecv>>
  /\ UNCHANGED <<qvars, scenario, sockIn, rbuf, peerClosed, srvReplied, srvEvents, rvars,
                 cid, cop, crep, spc, ivars, hvars, nowr>>

\* The rest of the line; on a socket closed meanwhile the write fails.
WriteRest(c) ==
  /\ cpc[c] = "writing"
  /\ IF conn = "nil"
       THEN /\ cres' = [cres EXCEPT ![c] = "writeerr"]
            /\ cpc' = [cpc EXCEPT ![c] = "defer"]
            /\ wr' = [wr EXCEPT !.mu = "free"]
            /\ UNCHANGED srvRecv
       ELSE /\ wr' = [wr EXCEPT !.wire = Append(@, [id |-> cid[c], part |-> 2])]
            /\ srvRecv' = Append(srvRecv,
                   [id |-> cid[c], cmd |-> CmdOf(cop[c]), fd |-> FALSE, name |-> 0])
            /\ cpc' = [cpc EXCEPT ![c] = "unlock"]
            /\ UNCHANGED cres
  /\ UNCHANGED <<qvars, scenario, sockIn, rbuf, peerClosed, srvReplied, srvEvents, rvars,
                 cid, cop, crep, spc, ivars, hvars, nowr>>

\* `q.connMu.Unlock()` after the write.
WriteUnlock(c) ==
  /\ cpc[c] = "unlock"
  /\ wr' = [wr EXCEPT !.mu = "free"]
  /\ cpc' = [cpc EXCEPT ![c] = "wait"]
  /\ UNCHANGED <<qvars, sockvars, rvars, cid, cop, cres, crep, spc, ivars, hvars, nowr>>

\* QMP.Close: `q.connMu.Lock()`.
CloseLock ==
  /\ spc = "returned"
  /\ wr.closer = "idle"
  /\ MuFree(wr.mu)
  /\ wr' = [wr EXCEPT !.mu = "closer", !.closer = "locked"]
  /\ UNCHANGED <<qvars, sockvars, rvars, cvars, spc, ivars, hvars, nowr>>

\* QMP.Close: `if q.conn != nil { q.conn.Close(); q.conn = nil }`.
CloseSocket ==
  /\ wr.closer = "locked"
  /\ conn' = IF conn /= "nil" THEN CloseConn ELSE conn
  /\ wr' = [wr EXCEPT !.closer = "unlock"]
  /\ UNCHANGED <<cmdCounter, pending, pendingNil, respCh, eventCh, eventChClosed, closeCh,
                 qOnStateChange, qOnEvent, sockvars, rvars, cvars, spc, ivars, hvars, nowr>>

\* QMP.Close: the deferred Unlock; Close has returned.
CloseUnlock ==
  /\ wr.closer = "unlock"
  /\ wr' = [wr EXCEPT !.mu = "free", !.closer = "returned"]
  /\ UNCHANGED <<qvars, sockvars, rvars, cvars, spc, ivars, hvars, nowr>>

\* Two goroutines call Execute and ExecuteWithFd, a third calls Close; the
\* read loop dispatches and QEMU replies.
NextWrite ==
  \/ UserBegin(1, {"exec"})
  \/ UserBegin(2, {"fd"})
  \/ \E c \in Users : ExecRegister(c)
  \/ \E c \in Users : WriteLock(c)
  \/ \E c \in Users : WriteFirst(c)
  \/ \E c \in Users : WriteRest(c)
  \/ \E c \in Users : WriteUnlock(c)
  \/ \E c \in Users : ExecSelect(c)
  \/ \E c \in Users : ExecDefer(c)
  \/ \E c \in Users : UserEnd(c)
  \/ CloseLock
  \/ CloseSocket
  \/ CloseUnlock
  \/ ReadFill
  \/ ReadLine
  \/ ReadError
  \/ ReadDeferCloseCh
  \/ ReadDeferEventCh
  \/ ReadDeferPending
  \/ SrvReply({"running"})

SpecWrite == InitCalls /\ [][NextWrite]_vars

\* ------------------------------------------------------------ Claim C27
\* The callers that are between Lock and Unlock of connMu.
InWrite == {c \in Users : cpc[c] \in {"locked", "writing", "unlock"}}

\* The pieces of every command line lie next to each other on the socket, at
\* most one goroutine is under the mutex, and the socket is open while a
\* line is half written.
C27_WriteState ==
  /\ \A i \in 1..Len(wr.wire) :
       /\ wr.wire[i].part = 1 =>
            (i = Len(wr.wire) \/ wr.wire[i + 1] = [id |-> wr.wire[i].id, part |-> 2])
       /\ wr.wire[i].part = 2 =>
            (i > 1 /\ wr.wire[i - 1] = [id |-> wr.wire[i].id, part |-> 1])
  /\ Cardinality(InWrite) + (IF wr.closer \in {"locked", "unlock"} THEN 1 ELSE 0) <= 1
  /\ \A c \in Users : cpc[c] = "writing" => conn = "open"

\* Close closes the socket only while no write is under way, and once Close
\* has returned nothing is written.
C27_CloseStep ==
  /\ (conn = "open" /\ conn' = "nil") => InWrite = {}
  /\ wr.closer = "returned" => wr'.wire = wr.wire

\* C27: the command lines of concurrent Execute / ExecuteWithFd calls reach
\* the socket one after the other, never interleaved; Close does not close
\* the socket while a line is being written, and after Close has returned no
\* command is written.
C27_WriteSerialized == [](C27_WriteState) /\ [][C27_CloseStep]_vars

\* Two callers have written their lines whole, one after the other, and
\* Close has returned.
C27_Witness ==
  /\ Len(wr.wire) = 4
  /\ wr.wire[1].id /= wr.wire[3].id
  /\ wr.closer = "returned"
  /\ conn = "nil"

\* ------------------------------------------------------------ Claim C28
\* The ids of the commands that have been given one: those written to the
\* socket and those of the calls under way.
IdsWritten == {srvRecv[i].id : i \in 1..Len(srvRecv)}
IdsHeld == {cid[c] : c \in {d \in Callers : cid[d] /= 0}}

\* Every id given out is one of cmd-1 .. cmd-<counter>, cmd-1 was the first,
\* and no two commands written and no two calls under way have the same id.
C28_IdState ==
  /\ \A n \in IdsWritten \cup IdsHeld : \E k \in 1..cmdCounter : CmdID(n) = CmdID(k)
  /\ srvRecv /= <<>> => CmdID(srvRecv[1].id) = CmdID(1)
  /\ \A i, j \in 1..Len(srvRecv) :
       i /= j => CmdID(srvRecv[i].id) /= CmdID(srvRecv[j].id)
  /\ \A c, d \in Callers :
       (c /= d /\ cid[c] /= 0 /\ cid[d] /= 0) => CmdID(cid[c]) /= CmdID(cid[d])

\* A call takes the id one above the last one given out, and nothing else
\* moves the counter.
C28_IdStep ==
  cmdCounter' /= cmdCounter =>
    /\ cmdCounter' = cmdCounter + 1
    /\ \E c \in Callers :
         /\ cpc[c] = "idle" /\ cpc'[c] = "reg"
         /\ cid'[c] = cmdCounter'
         /\ cmdCounter' \notin IdsWritten \cup IdsHeld

\* C28: within one connection the ids are cmd-1, cmd-2, ..., each call of
\* Execute / ExecuteWithTimeout / ExecuteWithFd taking the next value of the
\* counter; no two commands get the same id, concurrent calls included.
C28_CommandIds == [](C28_IdState) /\ [][C28_IdStep]_vars

\* Two calls are under way at the same time with the ids cmd-3 and cmd-4,
\* the later id written to the socket first.
C28_Witness ==
  /\ cid[1] /= 0 /\ cid[2] /= 0
  /\ cid[1] < cid[2]
  /\ cpc[1] = "write" /\ cpc[2] = "wait"
  /\ srvRecv[Len(srvRecv)].id = cid[2]

\* ------------------------------------------------------ findSocketFromArgs
\* Everything but pf.
nopf == <<qvars, sockvars, rvars, cvars, spc, ivars, hvars, kind, sockFile, sigs, scfg,
          alloc, bvars, srvRun, cfd, wr, sctx, proc, sigPending, iQmp, lop, lpc, lres>>

\* Arguments of the command line that are looked at.
MaxArgs == 4

\* An argument is a flag or a value; a value is given as strings.Split(value,
\* ",") sees it: the backend, then the options, key and value apart. A string
\* is a sequence of pieces, the empty sequence the empty string; the value of
\* id= is given letter by letter.
Flag(f) == [flag |-> f, parts |-> <<>>]
Value(backend, opts) ==
  [flag |-> "", parts |-> <<[key |-> "", val |-> <<backend>>]>> \o opts]
OptId(id) == [key |-> "id", val |-> id]
OptPath(p) == [key |-> "path", val |-> <<p>>]
OptHost(h) == [key |-> "host", val |-> <<h>>]

IdQmp == <<"q", "m", "p">>
IdCharMonitor == <<"c", "h", "a", "r", "m", "o", "n", "i", "t", "o", "r">>
IdSerial == <<"s", "e", "r", "i", "a", "l", "0">>

ArgTokens ==
  { Flag("-chardev"), Flag("-m"),
    Value("socket", <<OptId(IdQmp), OptPath("/tmp/qemu.sock")>>),
    Value("socket", <<OptPath("/run/qemu/mon.sock"), OptId(IdCharMonitor)>>),
    Value("socket", <<OptId(IdSerial), OptPath("/tmp/serial.sock")>>),
    Value("socket", <<OptId(IdQmp), OptHost("127.0.0.1")>>),
    Value("pty", <<OptId(IdQmp), OptPath("/dev/pts/1")>>) }

\* The command lines of up to MaxArgs arguments.
ArgLists == UNION {[1..n -> ArgTokens] : n \in 0..MaxArgs}

\* Mutant of Contains: nothing is found in any string.
ContainsNever(s, sub) == FALSE

\* strings.Contains(s, sub) on strings given letter by letter.
Contains(s, sub) ==
  \E k \in 0..(Len(s) - Len(sub)) : \A i \in 1..Len(sub) : s[k + i] = sub[i]

\* The inner loop over parts[1:]: the last path= wins, any id= with "monitor"
\* or "qmp" in it marks the chardev.
ChardevPath(parts) ==
  LET ps == {i \in 2..Len(parts) : parts[i].key = "path"}
  IN IF ps = {} THEN <<>> ELSE parts[CHOOSE i \in ps : \A j \in ps : j <= i].val

ChardevIsMonitor(parts) ==
  \E i \in 2..Len(parts) :
    /\ parts[i].key = "id"
    /\ \/ Contains(parts[i].val, <<"m", "o", "n", "i", "t", "o", "r">>)
       \/ Contains(parts[i].val, <<"q", "m", "p">>)

\* strings.HasPrefix(chardev, "socket,").
IsSocketChardev(a) ==
  a.flag = "" /\ Len(a.parts) >= 2 /\ a.parts[1].val = <<"socket">>

RECURSIVE FindFrom(_, _)
FindFrom(args, i) ==
  IF i > Len(args) - 1 THEN <<>>
  ELSE IF /\ args[i] = Flag("-chardev")
          /\ IsSocketChardev(args[i + 1])
          /\ ChardevPath(args[i + 1].parts) /= <<>>
          /\ ChardevIsMonitor(args[i + 1].parts)
         THEN ChardevPath(args[i + 1].parts)
         ELSE FindFrom(args, i + 1)

findSocketFromArgs(args) == FindFrom(args, 1)

\* AttachByPIDContext: findSocketFromArgs on the arguments of the process.
FindSocket ==
  /\ pf.fn = "AttachByPID"
  /\ pf.pc = "args"
  /\ pf' = [pf EXCEPT !.out = findSocketFromArgs(pf.in), !.pc = "found"]
  /\ UNCHANGED nopf

\* AttachByPIDContext: the error return on "", AttachContext otherwise.
AttachDial ==
  /\ pf.fn = "AttachByPID"
  /\ pf.pc = "found"
  /\ pf' = IF pf.out = <<>>
             THEN [pf EXCEPT !.pc = "failed"]
             ELSE [pf EXCEPT !.pc = "dialed", !.dialed = pf.out]
  /\ UNCHANGED nopf

InitArgs ==
  /\ Quiet
  /\ scfg = NoStart
  /\ alloc = NoAlloc
  /\ bcfg = NoBuild
  /\ bargs = <<>>
  /\ srvRun = "running"
  /\ cfd = [c \in Users |-> NoFd]
  /\ wr = NoWrites
  /\ sctx = "live"
  /\ \E args \in ArgLists :
       pf = [fn |-> "AttachByPID", in |-> args, pc |-> "args", out |-> <<>>,
             dialed |-> <<>>]

NextArgs == FindSocket \/ AttachDial

SpecArgs == InitArgs /\ [][NextArgs]_vars

\* ------------------------------------------------------------ Claim C29
\* The ids among the arguments that have "monitor" or "qmp" in them.
MonitorIds == {IdQmp, IdCharMonitor}

\* The positions of the -chardev socket,... arguments whose id= has "monitor"
\* or "qmp" in it.
MonitorChardevs(args) ==
  {i \in 1..(Len(args) - 1) :
     /\ args[i].flag = "-chardev"
     /\ args[i + 1].flag = "" /\ args[i + 1].parts[1].val = <<"socket">>
     /\ \E k \in 2..Len(args[i + 1].parts) :
          args[i + 1].parts[k].key = "id" /\ args[i + 1].parts[k].val \in MonitorIds}

First(S) == CHOOSE i \in S : \A j \in S : i <= j

\* C29 (as claimed): the result is the path= value of the first such
\* chardev, and "" when there is none.
C29_FirstMonitorChardev ==
  pf.fn = "AttachByPID" /\ pf.pc /= "args" =>
    LET S == MonitorChardevs(pf.in)
    IN pf.out = IF S = {} THEN <<>> ELSE ChardevPath(pf.in[First(S) + 1].parts)

\* The same positions, those without a path= value left out.
MonitorChardevsWithPath(args) ==
  {i \in MonitorChardevs(args) : ChardevPath(args[i + 1].parts) /= <<>>}

\* C29: findSocketFromArgs returns the path= value of the first -chardev
\* socket,... argument that has both an id= with "monitor" or "qmp" in it
\* and a path=, and "" when there is none; on "" AttachByPID fails without
\* dialing, otherwise it dials that path.
C29_FirstWithPath ==
  pf.fn = "AttachByPID" /\ pf.pc /= "args" =>
    LET S == MonitorChardevsWithPath(pf.in)
    IN /\ pf.out = IF S = {} THEN <<>> ELSE ChardevPath(pf.in[First(S) + 1].parts)
       /\ pf.pc = "failed" => (pf.out = <<>> /\ pf.dialed = <<>>)
       /\ pf.pc = "dialed" => (pf.out /= <<>> /\ pf.dialed = pf.out)

\* A monitor chardev without path= comes before one with it: the path of the
\* second is returned and dialed.
C29_Witness ==
  /\ pf.fn = "AttachByPID"
  /\ pf.pc = "dialed" /\ pf.dialed = <<"/tmp/qemu.sock">>
  /\ Cardinality(MonitorChardevs(pf.in)) = 2
  /\ ChardevPath(pf.in[First(MonitorChardevs(pf.in)) + 1].parts) = <<>>

\* ------------------------------------------------------- Status parsing
\* Status strings a query-status reply can carry: QEMU's run states, the same
\* words in other spellings, and strings that are no run state at all.
StatusStrings ==
  {"running", "paused", "shutdown", "suspended", "prelaunch", "inmigrate",
   "internal-error", "io-error",
   "debug", "finish-migrate", "postmigrate", "restore-vm", "save-vm",
   "watchdog", "guest-panicked", "colo",
   "", "unknown", "unknown-status", "crashed", "Running", "RUNNING", "Paused",
   "PAUSED", "Shutdown", "Suspended", "Prelaunch", "Inmigrate", "running ",
   " running", "pause", "run", "internal_error", "io_error", "internal-error\n",
   "io-error ", "stopped", "halted", "alive", "dead"}

InitParse ==
  /\ Quiet
  /\ scfg = NoStart
  /\ alloc = NoAlloc
  /\ bcfg = NoBuild
  /\ bargs = <<>>
  /\ srvRun = "running"
  /\ cfd = [c \in Users |-> NoFd]
  /\ wr = NoWrites
  /\ sctx = "live"
  /\ \E s \in StatusStrings :
       pf = [fn |-> "parseQMPStatus", in |-> s, pc |-> "status",
             out |-> StateUnknown, alive |-> FALSE]

\* parseQMPStatus(status) applied to the drawn string.
ParseStatus ==
  /\ pf.fn = "parseQMPStatus"
  /\ pf.pc = "status"
  /\ pf' = [pf EXCEPT !.out = parseQMPStatus(pf.in), !.pc = "state"]
  /\ UNCHANGED nopf

\* State.IsAlive on the parsed state.
StateIsAlive ==
  /\ pf.fn = "parseQMPStatus"
  /\ pf.pc = "state"
  /\ pf' = [pf EXCEPT !.alive = IsAlive(pf.out), !.pc = "alive"]
  /\ UNCHANGED nopf

NextParse == ParseStatus \/ StateIsAlive

SpecParse == InitParse /\ [][NextParse]_vars

\* ------------------------------------------------------------ Claim C30
\* The status words with a state of their own, as <<word, state>>.
C30_Table ==
  {<<"running", "running">>, <<"paused", "paused">>,
   <<"suspended", "suspended">>, <<"prelaunch", "prelaunch">>,
   <<"inmigrate", "prelaunch">>, <<"shutdown", "shutdown">>,
   <<"internal-error", "crashed">>, <<"io-error", "crashed">>}

\* C30: parseQMPStatus is total: it maps running to Running, paused to
\* Paused, suspended to Suspended, prelaunch and inmigrate to Prelaunch,
\* shutdown to Shutdown, internal-error and io-error to Crashed and every other
\* string to Unknown; IsAlive is true exactly for Prelaunch, Running, Paused
\* and Suspended.
C30_StatusParsing ==
  pf.fn = "parseQMPStatus" =>
    /\ pf.pc \in {"state", "alive"} =>
         /\ pf.out \in {"unknown", "running", "paused", "shutdown", "crashed",
                        "suspended", "prelaunch"}
         /\ \A p \in C30_Table : pf.in = p[1] => pf.out = p[2]
         /\ (\A p \in C30_Table : pf.in /= p[1]) => pf.out = "unknown"
    /\ pf.pc = "alive" =>
         (pf.alive <=> pf.out \in {"prelaunch", "running", "paused", "suspended"})

\* A string that is no status word has been parsed to Unknown and found not
\* alive.
C30_Witness ==
  /\ pf.fn = "parseQMPStatus"
  /\ pf.pc = "alive"
  /\ pf.in = "guest-panicked"
  /\ pf.out = "unknown"
  /\ ~pf.alive

\* ------------------------------------------------- The greeting, by bytes
\* Bytes the server writes in all.
MaxStream == 5

\* A byte of a JSON object, a byte that is none, the newline.
Bytes == {"j", "x", "\n"}

Streams == UNION {[1..n -> Bytes] : n \in 0..MaxStream}

\* conn.Read that takes everything the socket holds, whatever len(b) is.
ConnReadAll(sock, n) == sock

\* conn.Read(b) with len(b) = n on a socket holding sock: the bytes it takes.
ConnRead(sock, n) == SubSeq(sock, 1, IF Len(sock) < n THEN Len(sock) ELSE n)

\* json.Unmarshal(line, &v) = nil: the line, newline apart, is a JSON object.
IsJSON(line) ==
  /\ Len(line) >= 2
  /\ \A i \in 1..(Len(line) - 1) : line[i] = "j"

\* Index of the first newline of s, 0 when it has none.
RECURSIVE NewlineFrom(_, _)
NewlineFrom(s, i) ==
  IF i > Len(s) THEN 0
  ELSE IF s[i] = "\n" THEN i
  ELSE NewlineFrom(s, i + 1)

InitGreet ==
  /\ Quiet
  /\ scfg = NoStart
  /\ alloc = NoAlloc
  /\ bcfg = NoBuild
  /\ bargs = <<>>
  /\ srvRun = "running"
  /\ cfd = [c \in Users |-> NoFd]
  /\ wr = NoWrites
  /\ sctx = "live"
  /\ \E s \in Streams :
       pf = [fn |-> "readGreeting", in |-> s, sent |-> 0, sock |-> <<>>,
             buf |-> <<>>, pc |-> "greet", rbuf |-> <<>>, lines |-> <<>>]

\* QEMU writes the next bytes of its stream, any number of them at once.
GreetSrvWrite ==
  /\ pf.fn = "readGreeting"
  /\ pf.pc /= "failed"
  /\ \E k \in 1..(Len(pf.in) - pf.sent) :
       pf' = [pf EXCEPT !.sent = @ + k,
                        !.sock = @ \o SubSeq(pf.in, pf.sent + 1, pf.sent + k)]
  /\ UNCHANGED nopf

\* One iteration of readGreeting's loop: q.conn.Read(b) with b of one byte,
\* append(buf, b[0]), break on the newline.
GreetRead ==
  /\ pf.fn = "readGreeting"
  /\ pf.pc = "greet"
  /\ pf.sock /= <<>>
  /\ LET got == ConnRead(pf.sock, 1)
     IN pf' = [pf EXCEPT !.buf = Append(@, got[1]),
                         !.sock = SubSeq(@, Len(got) + 1, Len(@)),
                         !.pc = IF got[1] = "\n" THEN "parse" ELSE "greet"]
  /\ UNCHANGED nopf

\* json.Unmarshal(buf, &greeting); newQMP closes the connection on an error,
\* and otherwise makes q.reader and starts the read loop.
GreetParse ==
  /\ pf.fn = "readGreeting"
  /\ pf.pc = "parse"
  /\ pf' = [pf EXCEPT !.pc = IF IsJSON(pf.buf) THEN "loop" ELSE "failed"]
  /\ UNCHANGED nopf

\* q.reader.ReadBytes('\n') fills the reader's buffer from the socket while the
\* buffer holds no newline.
GreetLoopFill ==
  /\ pf.fn = "readGreeting"
  /\ pf.pc = "loop"
  /\ NewlineFrom(pf.rbuf, 1) = 0
  /\ pf.sock /= <<>>
  /\ LET got == ConnRead(pf.sock, Len(pf.sock))
     IN pf' = [pf EXCEPT !.rbuf = @ \o got,
                         !.sock = SubSeq(@, Len(got) + 1, Len(@))]
  /\ UNCHANGED nopf

\* q.reader.ReadBytes('\n') returns the next line of the buffer.
GreetLoopLine ==
  /\ pf.fn = "readGreeting"
  /\ pf.pc = "loop"
  /\ NewlineFrom(pf.rbuf, 1) > 0
  /\ LET n == NewlineFrom(pf.rbuf, 1)
     IN pf' = [pf EXCEPT !.lines = Append(@, SubSeq(pf.rbuf, 1, n)),
                         !.rbuf = SubSeq(@, n + 1, Len(@))]
  /\ UNCHANGED nopf

NextGreet == GreetSrvWrite \/ GreetRead \/ GreetParse \/ GreetLoopFill \/ GreetLoopLine

SpecGreet == InitGreet /\ [][NextGreet]_vars

\* ------------------------------------------------------------ Claim C31
\* The lines put one after the other.
RECURSIVE C31_Flat(_)
C31_Flat(ls) == IF ls = <<>> THEN <<>> ELSE Head(ls) \o C31_Flat(Tail(ls))

\* C31: readGreeting takes the bytes of the socket up to and including the
\* first newline and not one more: the greeting is a prefix of what the server
\* wrote with its only newline at the end, and the greeting, the lines the read
\* loop has read, the reader's buffer and what is still in the socket are, in
\* this order, exactly the bytes the server has written.
C31_GreetingOneLine ==
  pf.fn = "readGreeting" =>
    /\ pf.buf \o C31_Flat(pf.lines) \o pf.rbuf \o pf.sock = SubSeq(pf.in, 1, pf.sent)
    /\ \A i \in 1..(Len(pf.buf) - 1) : pf.buf[i] /= "\n"
    /\ pf.pc /= "greet" => pf.buf /= <<>> /\ pf.buf[Len(pf.buf)] = "\n"
    /\ pf.pc = "greet" => pf.lines = <<>> /\ pf.rbuf = <<>>

\* The server wrote the greeting and the next message in one piece; the
\* greeting was read and the read loop has read the next message whole.
C31_Witness ==
  /\ pf.fn = "readGreeting"
  /\ pf.in = <<"j", "\n", "j", "j", "\n">>
  /\ pf.buf = <<"j", "\n">>
  /\ pf.lines = <<(<<"j", "j", "\n">>)>>
  /\ pf.sock = <<>>

\* ------------------------------------------------------------ Claim C32
\* No slot from the next candidate up to 0x1f is free.
C32_NoFreeSlot(a) == \A s \in a.nextSlot..31 : s \in a.used

\* C32 (as claimed): on any allocator, a call of Alloc made when no slot in
\* [next candidate, 31] is free panics and returns nothing; a call that
\* returns gives a slot of at most 0x1f, and Alloc marks no slot outside
\* [0, 31] as used.
C32_ExhaustionStep ==
  (Len(alloc'.out) > Len(alloc.out) \/ alloc'.panicked /= alloc.panicked) =>
    /\ IF C32_NoFreeSlot(alloc)
         THEN alloc'.panicked /\ alloc'.out = alloc.out
         ELSE ~alloc'.panicked /\ alloc'.out[Len(alloc'.out)] \in 0..31
    /\ alloc'.used \subseteq 0..31

C32_ExhaustionFatal == [][C32_ExhaustionStep]_vars

\* ------------------------------------------------------------ Disks
\* Strings are sequences of pieces, <<>> the empty string.
DiskBackends == {"nil", "file", "nbd", "rbd", "iscsi"}

\* DiskConfig, with the fields buildDiskArgs reads; throttle "nil" is no
\* ThrottleConfig, group <<>> a ThrottleConfig without a group.
DiskConfigs ==
  [id : {<<>>, <<"disk0">>}, backend : DiskBackends, format : {<<>>, <<"qcow2">>},
   throttle : {"nil", "set"}, group : {<<>>, <<"tg0">>},
   iface : {"", "virtio", "scsi", "ide", "nvme", "sd"}, bootindex : {0, 1},
   serial : {<<>>, <<"SN1">>}, pci : BOOLEAN]

\* One -blockdev argument: the options of its JSON object.
Blockdev(node, driver, file, group) ==
  [flag |-> "-blockdev", node |-> node, driver |-> driver, file |-> file,
   group |-> group, drive |-> <<>>, addr |-> -1, bootindex |-> 0, serial |-> <<>>]

\* The format node over a backend node that is not iSCSI.
FormatNode(id, driver, file) == Blockdev(id \o <<"-format">>, driver, file, <<>>)

\* Backend.BuildBlockdevArgs(id) of the four backends.
BuildBlockdevArgs(cfg, id) ==
  CASE cfg.backend = "file" ->
         <<Blockdev(id \o <<"-file">>, <<"file">>, <<>>, <<>>),
           FormatNode(id, IF cfg.format = <<>> THEN <<"raw">> ELSE cfg.format,
                      id \o <<"-file">>)>>
    [] cfg.backend = "nbd" ->
         <<Blockdev(id \o <<"-nbd">>, <<"nbd">>, <<>>, <<>>),
           FormatNode(id, <<"raw">>, id \o <<"-nbd">>)>>
    [] cfg.backend = "rbd" ->
         <<Blockdev(id \o <<"-rbd">>, <<"rbd">>, <<>>, <<>>),
           FormatNode(id, <<"raw">>, id \o <<"-rbd">>)>>
    [] cfg.backend = "iscsi" ->
         <<Blockdev(id \o <<"-iscsi">>, <<"iscsi">>, <<>>, <<>>)>>

\* cfg.Throttle != nil && cfg.Throttle.Group != "".
HasThrottle(cfg) == cfg.throttle = "set" /\ cfg.group /= <<>>

\* BuildThrottleGroupArgs.
BuildThrottleGroupArgs(cfg) ==
  <<[flag |-> "-object", node |-> <<>>, driver |-> <<"throttle-group">>, file |-> <<>>,
     group |-> cfg.group, drive |-> <<>>, addr |-> -1, bootindex |-> 0,
     serial |-> <<>>]>>

\* BuildThrottleBlockdevArgs(id, fileNode).
BuildThrottleBlockdevArgs(cfg, id, fileNode) ==
  <<Blockdev(id, <<"throttle">>, fileNode, cfg.group)>>

\* A final node that is the format node whatever the backend.
FinalNodeFormat(cfg, id) == id \o <<"-format">>

\* buildDiskArgs, "Determine the final node name".
FinalNode(cfg, id) ==
  IF cfg.backend = "iscsi" THEN id \o <<"-iscsi">> ELSE id \o <<"-format">>

\* buildDiskArgs, the switch on the interface.
DeviceType(iface) ==
  CASE iface \in {"", "virtio"} -> <<"virtio-blk-pci">>
    [] iface = "scsi" -> <<"scsi-hd">>
    [] iface = "ide" -> <<"ide-hd">>
    [] iface = "nvme" -> <<"nvme">>
    [] OTHER -> <<"virtio-blk-pci">>

\* buildDiskArgs(cfg, pciAlloc), pciAlloc a fresh Q35 allocator or nil.
buildDiskArgs(cfg) ==
  IF cfg.backend = "nil" THEN <<>>
  ELSE
    LET id == IF cfg.id = <<>> THEN <<"drive0">> ELSE cfg.id
        inner == FinalNode(cfg, id)
        final == IF HasThrottle(cfg) THEN id \o <<"-throttle">> ELSE inner
        iface == IF cfg.iface = "" THEN "virtio" ELSE cfg.iface
        a2 == AllocStep(NewPCISlotAllocator(TRUE))
        device ==
          [flag |-> "-device", node |-> id \o <<"-device">>, driver |-> DeviceType(iface),
           file |-> <<>>, group |-> <<>>, drive |-> final,
           addr |-> IF cfg.pci /\ iface \in {"virtio", "nvme"}
                      THEN a2.out[Len(a2.out)] ELSE -1,
           bootindex |-> IF cfg.bootindex > 0 THEN cfg.bootindex ELSE 0,
           serial |-> cfg.serial]
    IN (IF HasThrottle(cfg) THEN BuildThrottleGroupArgs(cfg) ELSE <<>>)
       \o BuildBlockdevArgs(cfg, id)
       \o (IF HasThrottle(cfg)
             THEN BuildThrottleBlockdevArgs(cfg, id \o <<"-throttle">>, inner)
             ELSE <<>>)
       \o <<device>>

InitDisk ==
  /\ Quiet
  /\ scfg = NoStart
  /\ alloc = NoAlloc
  /\ bcfg = NoBuild
  /\ bargs = <<>>
  /\ srvRun = "running"
  /\ cfd = [c \in Users |-> NoFd]
  /\ wr = NoWrites
  /\ sctx = "live"
  /\ \E cfg \in DiskConfigs :
       pf = [fn |-> "buildDiskArgs", in |-> cfg, pc |-> "call", out |-> <<>>]

BuildDiskCall ==
  /\ pf.fn = "buildDiskArgs"
  /\ pf.pc = "call"
  /\ pf' = [pf EXCEPT !.out = buildDiskArgs(pf.in), !.pc = "done"]
  /\ UNCHANGED nopf

NextDisk == BuildDiskCall

SpecDisk == InitDisk /\ [][NextDisk]_vars

\* ------------------------------------------------------------ Claim C33
\* The id the nodes are named after.
C33_Id == IF pf.in.id = <<>> THEN <<"drive0">> ELSE pf.in.id

C33_Suffix == [file |-> "-file", nbd |-> "-nbd", rbd |-> "-rbd", iscsi |-> "-iscsi"]

\* The -blockdev arguments of the list, by node name.
C33_Nodes == {a \in {pf.out[i] : i \in 1..Len(pf.out)} : a.flag = "-blockdev"}

C33_Node(name) == CHOOSE a \in C33_Nodes : a.node = name

C33_Has(name) == \E a \in C33_Nodes : a.node = name

C33_Throttled == pf.in.throttle = "set" /\ pf.in.group = <<"tg0">>

\* The -device argument names the node `name` as its drive.
C33_Drive(name) ==
  \E i \in 1..Len(pf.out) : pf.out[i].flag = "-device" /\ pf.out[i].drive = name

\* The throttle node lies over the node `name`, in the group of the emitted
\* throttle-group object.
C33_ThrottleOver(name) ==
  /\ C33_Has(C33_Id \o <<"-throttle">>)
  /\ C33_Node(C33_Id \o <<"-throttle">>).file = name
  /\ C33_Node(C33_Id \o <<"-throttle">>).group = pf.in.group
  /\ \E i \in 1..Len(pf.out) : pf.out[i].flag = "-object" /\ pf.out[i].group = pf.in.group

\* C33 (as claimed): for every disk with a backend, iSCSI included, the list
\* has the backend node <id>-<backend>, a format node <id>-format over it and,
\* with a throttle group, a throttle node <id>-throttle over the format node;
\* drive= names the outermost node.
C33_TwoLayers ==
  (pf.fn = "buildDiskArgs" /\ pf.pc = "done" /\ pf.in.backend /= "nil") =>
    /\ C33_Has(C33_Id \o <<C33_Suffix[pf.in.backend]>>)
    /\ C33_Has(C33_Id \o <<"-format">>)
    /\ C33_Node(C33_Id \o <<"-format">>).file = C33_Id \o <<C33_Suffix[pf.in.backend]>>
    /\ IF C33_Throttled
         THEN C33_ThrottleOver(C33_Id \o <<"-format">>)
              /\ C33_Drive(C33_Id \o <<"-throttle">>)
         ELSE C33_Drive(C33_Id \o <<"-format">>)

\* C33 (amended): a file, nbd or rbd disk has the backend node and the format
\* node <id>-format over it; an iSCSI disk has the one node <id>-iscsi and no
\* format node; with a throttle group the throttle node <id>-throttle lies
\* over the format node (over <id>-iscsi for iSCSI) in the group of the
\* emitted throttle-group object; drive= names the outermost emitted node, and
\* every node named as a file is emitted earlier in the list.
C33_Layers ==
  (pf.fn = "buildDiskArgs" /\ pf.pc = "done" /\ pf.in.backend /= "nil") =>
    LET back == C33_Id \o <<C33_Suffix[pf.in.backend]>>
        top == IF pf.in.backend = "iscsi" THEN back ELSE C33_Id \o <<"-format">>
    IN /\ C33_Has(back)
       /\ C33_Node(back).file = <<>>
       /\ IF pf.in.backend = "iscsi"
            THEN ~C33_Has(C33_Id \o <<"-format">>)
            ELSE /\ C33_Has(C33_Id \o <<"-format">>)
                 /\ C33_Node(C33_Id \o <<"-format">>).file = back
       /\ IF C33_Throttled
            THEN C33_ThrottleOver(top) /\ C33_Drive(C33_Id \o <<"-throttle">>)
            ELSE ~C33_Has(C33_Id \o <<"-throttle">>) /\ C33_Drive(top)
       /\ Cardinality(C33_Nodes) =
            (IF pf.in.backend = "iscsi" THEN 1 ELSE 2) + (IF C33_Throttled THEN 1 ELSE 0)
       /\ \A i \in 1..Len(pf.out) :
            pf.out[i].file /= <<>> =>
              \E j \in 1..(i - 1) : pf.out[j].flag = "-blockdev" /\ pf.out[j].node = pf.out[i].file

\* A throttled iSCSI disk has been composed: three arguments before the
\* device, which names the throttle node.
C33_Witness ==
  /\ pf.fn = "buildDiskArgs"
  /\ pf.pc = "done"
  /\ pf.in.backend = "iscsi"
  /\ pf.in.id = <<"disk0">>
  /\ C33_Throttled
  /\ Len(pf.out) = 4
  /\ pf.out[4].drive = <<"disk0", "-throttle">>
  /\ pf.out[3].file = <<"disk0", "-iscsi">>

\* ------------------------------------------------ Delivery by the reader
\* Lines QEMU sends without being asked.
MaxNoise == 1

\* A JSON object with neither "id" nor "event".
Bare == [t |-> "bare", id |-> 0, ok |-> TRUE, name |-> "", n |-> 0]

\* QEMU, or whatever sits at the other end of the socket, writes a line nobody
\* waits for: a reply with any id (a second reply, a reply to a command that has
\* returned or was not sent yet), a line that is no JSON, an object without id
\* and event; at most MaxInFlight lines are unread at a time.
SrvSpeak ==
  /\ ~peerClosed
  /\ srvEvents < MaxNoise
  /\ Len(sockIn) + Len(rbuf) < MaxInFlight
  /\ \E l \in {Reply(i, TRUE, "") : i \in {j \in CmdIds : j <= cmdCounter + 1}}
                \cup {Junk, Bare} :
       sockIn' = Append(sockIn, l)
  /\ srvEvents' = srvEvents + 1
  /\ UNCHANGED <<qvars, scenario, rbuf, peerClosed, srvRecv, srvReplied, rvars, cvars,
                 spc, ivars, hvars, pvars>>

\* One goroutine calls Execute, writing under connMu; the read loop
\* dispatches what QEMU sends, asked or not.
NextDeliver ==
  \/ UserBegin(1, {"exec"})
  \/ \E c \in Users : ExecRegister(c)
  \/ \E c \in Users : WriteLock(c)
  \/ \E c \in Users : WriteFirst(c)
  \/ \E c \in Users : WriteRest(c)
  \/ \E c \in Users : WriteUnlock(c)
  \/ \E c \in Users : ExecSelect(c)
  \/ \E c \in Users : ExecDefer(c)
  \/ \E c \in Users : UserEnd(c)
  \/ ReadFill
  \/ ReadLine
  \/ SrvReply({"running"})
  \/ SrvSpeak

SpecDeliver == InitCalls /\ [][NextDeliver]_vars

\* ------------------------------------------------------------ Claim C34
\* Everything but the reader's buffer and the sinks.
C34_Rest ==
  <<conn, cmdCounter, pending, pendingNil, eventCh, eventChClosed, closeCh,
    qOnStateChange, qOnEvent, scenario, sockIn, peerClosed, srvRecv, srvReplied,
    srvEvents, rpc, rline, rlast, cvars, spc, ivars, hvars, pvars>>

\* The read loop is at a line that is no event.
C34_AtLine == rpc = "read" /\ rbuf /= <<>> /\ Head(rbuf).t /= "event"

\* The step of the read loop on that line: nothing changes but the buffer and
\* at most one sink, the one registered under the line's id when the line is a
\* reply, the sink is registered and it is empty; a second reply to a full
\* sink, a reply with an id that is not pending, and a line with neither id nor
\* event leave every sink as it was.
C34_ReadStep ==
  (C34_AtLine /\ rbuf' = Tail(rbuf)) =>
    LET l == Head(rbuf)
        c == IF l.t = "reply" /\ l.id \in 1..MaxCmds THEN pending[l.id] ELSE -1
    IN /\ UNCHANGED C34_Rest
       /\ IF c \in Users /\ respCh[c] = <<>>
            THEN respCh' = [respCh EXCEPT ![c] = <<l>>]
            ELSE respCh' = respCh

\* A caller takes a reply at most once per command, the one with its id.
C34_TakeStep ==
  \A c \in Users :
    (crep'[c] /= crep[c] /\ crep'[c].t = "reply") =>
      /\ crep[c].t = "none"
      /\ crep'[c].id = cid[c]
      /\ respCh[c] = <<crep'[c]>>
      /\ respCh'[c] = <<>>

\* C34: the read loop never takes the write mutex and is never held up by it
\* or by a sink; a reply is delivered by a non-blocking send into a sink of
\* one slot, so a caller gets at most one reply per command and a second reply
\* with the same id is dropped; a line whose id is not pending, or with
\* neither id nor event, is dropped with no change of state.
C34_ReaderNeverBlocks ==
  /\ [](\A c \in Users : Len(respCh[c]) <= 1)
  /\ [](wr.mu \in {"free", "writer"})
  /\ [](C34_AtLine => ENABLED ReadLine)
  /\ [][C34_ReadStep /\ C34_TakeStep]_vars

\* The read loop is at a second reply to the caller's command while the first
\* is still in the sink and the write mutex is held.
C34_Witness ==
  /\ C34_AtLine
  /\ Head(rbuf).t = "reply"
  /\ pending[Head(rbuf).id] = 1
  /\ Len(respCh[1]) = 1
  /\ respCh[1][1].id = Head(rbuf).id

\* ------------------------------------------------------------ Claim C35
\* A cleanup has closed the transport and set the state to Shutdown.
C35_CleanupDone ==
  /\ ~iQmp
  /\ conn = "nil"
  /\ \E c \in Users : lop[c] \in {"stop", "force", "wait"} /\ lpc[c] \in {"ret", "done"}

\* C35 (as claimed): once cleanup has closed the transport and set the state
\* to Shutdown the state never changes again, whatever the read loop had read
\* or buffered before the close.
C35_ShutdownFinal ==
  [][(C35_CleanupDone /\ state = StateShutdown) => state' = StateShutdown]_vars

\* ------------------------------------------------- QueryState and events
\* QEMU has answered every command it has received.
SrvAnsweredAll == \A i \in 1..Len(srvRecv) : srvRecv[i].id \in srvReplied

\* One goroutine calls QueryState; QEMU, running, answers query-status and
\* afterwards stops and emits STOP; the read loop dispatches both.
NextQuery ==
  \/ QmpOpBeginOf(1, {"QueryState"})
  \/ \E c \in Users : QmpOpExecuted(c)
  \/ \E c \in Users : UserStateCb(c)
  \/ \E c \in Users : OpForget(c)
  \/ \E c \in Users : ExecRegister(c)
  \/ \E c \in Users : ExecWrite(c)
  \/ \E c \in Users : ExecSelect(c)
  \/ \E c \in Users : ExecDefer(c)
  \/ ReadFill
  \/ ReadLine
  \/ ReadStateCb
  \/ ReadChan
  \/ ReadEventCb
  \/ (srvEvents = 0 /\ SrvReply({"running"}))
  \/ (SrvAnsweredAll /\ SrvUnsolicited({"STOP"}, MaxEvents))

SpecQuery == InitPause /\ [][NextQuery]_vars

\* ------------------------------------------------------------ Claim C36
\* C36 (as claimed): the query-status reply was received before the STOP
\* event, so once QueryState has returned and the event has been handled the
\* instance state is the event's state, paused.
C36_ReceiveOrder ==
  (/\ srvEvents > 0
   /\ sockIn = <<>> /\ rbuf = <<>> /\ rpc = "read"
   /\ lpc[1] \in {"idle", "done"} /\ cpc[1] = "idle" /\ scbPend[1] = "")
    => state = StatePaused

\* ------------------------------------------------------------ Claim C37
\* No setState is in progress: none has still to call the callback.
C37_NoUpdate == \A t \in Threads : scbPend[t] = ""

\* C37 (as claimed): callbacks run in the order of the state writes, so once
\* no update is in progress the last value passed to the state-change callback
\* is the state.
C37_CallbackOrder ==
  (C37_NoUpdate /\ cbLog /= <<>>) => cbLog[Len(cbLog)] = state

\* ------------------------------------------------------------ Claim C38
\* C38 (as claimed): on an instance attached by socket path alone, Stop
\* leaves its wait loop for cleanup with the result nil, a graceful shutdown,
\* only when the QEMU process has exited.
C38_NoFalseSuccess ==
  [][\A c \in Users :
       (/\ kind = "sock"
        /\ lop[c] = "stop"
        /\ lpc[c] \in {"loop", "sleep"}
        /\ lpc'[c] = "cleanup"
        /\ lres'[c] = "nil") => proc /= "running"]_vars

\* ------------------------------------------------------------ Claim C39
\* The caller cancels the context it gave to StartContext, after the call has
\* returned the instance.
CtxCancel ==
  /\ spc = "returned"
  /\ sctx = "live"
  /\ sctx' = "done"
  /\ UNCHANGED <<qvars, sockvars, rvars, cvars, spc, ivars, hvars, kind, sockFile, sigs,
                 scfg, alloc, bvars, srvRun, cfd, wr, pf, proc, sigPending, iQmp, lop, lpc,
                 lres>>

\* `exec.CommandContext(ctx, qemuPath, args...)`: from cmd.Start on, the
\* command watches ctx and calls Process.Kill when ctx is done. Only cmd.Wait
\* ends the watch, and the instance waits with i.process.Wait(), so the watch
\* lasts as long as the instance.
WatchCtx ==
  /\ kind = "spawn"
  /\ sctx = "done"
  /\ sctx' = "fired"
  /\ sigPending' = (sigPending \/ proc = "running")
  /\ sigs' = sigs \cup {"pid"}
  /\ UNCHANGED <<qvars, sockvars, rvars, cvars, spc, ivars, hvars, kind, sockFile, scfg,
                 alloc, bvars, srvRun, cfd, wr, pf, proc, iQmp, lop, lpc, lres>>

\* A started instance whose caller may cancel the start context and may call
\* ForceStop; QEMU emits STOP and SHUTDOWN and exits.
NextCtx ==
  \/ CtxCancel
  \/ WatchCtx
  \/ ForceStopBegin(1)
  \/ \E c \in Users : ForceStopKill(c)
  \/ \E c \in Users : Cleanup(c)
  \/ \E c \in Users : CleanupSetState(c)
  \/ \E c \in Users : UserStateCb(c)
  \/ \E c \in Users : OpReturn(c)
  \/ \E c \in Users : OpForget(c)
  \/ ReadFill
  \/ ReadLine
  \/ ReadStateCb
  \/ ReadChan
  \/ ReadEventCb
  \/ ReadError
  \/ ReadDeferCloseCh
  \/ ReadDeferEventCh
  \/ ReadDeferPending
  \/ SrvUnsolicited({"SHUTDOWN", "STOP"}, MaxEvents)
  \/ ProcExit

SpecCtx == InitPause /\ [][NextCtx]_vars

\* C39 (as claimed): after a successful start the QEMU child is signalled only
\* by ForceStop, so a step that leaves a kill signal pending on the live child
\* is the kill step of a ForceStop, called directly or by Stop; cancelling the
\* start context signals nothing.
C39_OnlyForceStopSignals ==
  [][(spc = "returned" /\ proc = "running" /\ ~sigPending /\ sigPending')
       => \E c \in Users : lop[c] \in {"force", "stop"} /\ lpc[c] = "kill"]_vars

\* ------------------------------------------------------------ Claim C40
\* eventLoop calls the callbacks itself: handleEvent calls q.onStateChange,
\* which is the instance's setState and ends in the user's state-change
\* callback, and after the send to eventCh the loop calls q.onEvent. A
\* callback that calls Execute runs Execute on the eventLoop goroutine.
InCallback ==
  \/ rpc = "statecb" /\ iOnStateChange
  \/ rpc = "evcb" /\ qOnEvent

\* The callback calls Execute.
CbExecBegin ==
  /\ InCallback
  /\ ExecBegin(Reader, "exec")
  /\ UNCHANGED <<conn, pending, pendingNil, eventCh, eventChClosed, closeCh,
                 qOnStateChange, qOnEvent, sockvars, rvars, spc, ivars, hvars, pvars>>

\* Execute has returned to the callback.
CbExecEnd ==
  /\ cpc[Reader] = "done"
  /\ Returned(Reader)
  /\ UNCHANGED <<conn, cmdCounter, pending, pendingNil, eventCh, eventChClosed, closeCh,
                 qOnStateChange, qOnEvent, sockvars, rvars, spc, ivars, hvars, pvars>>

\* The callback returns to the loop when no call of its own is in progress.
CbStateReturn == cpc[Reader] = "idle" /\ ReadStateCb

CbEventReturn == cpc[Reader] = "idle" /\ ReadEventCb

\* The instance has a state-change callback and an event callback.
InitCb ==
  /\ Started
  /\ kind = "spawn"
  /\ state = StateRunning
  /\ iOnStateChange = TRUE
  /\ qOnEvent = TRUE

\* QEMU emits STOP and RESUME and answers commands; the callbacks may call
\* Execute, and so may a user goroutine.
NextCb ==
  \/ UserBegin(1, {"exec"})
  \/ UserEnd(1)
  \/ CbExecBegin
  \/ CbExecEnd
  \/ \E c \in {1, Reader} : ExecRegister(c)
  \/ \E c \in {1, Reader} : ExecWrite(c)
  \/ \E c \in {1, Reader} : ExecSelect(c)
  \/ \E c \in {1, Reader} : ExecDefer(c)
  \/ ReadFill
  \/ ReadLine
  \/ CbStateReturn
  \/ ReadChan
  \/ CbEventReturn
  \/ SrvReply({"running"})
  \/ SrvUnsolicited({"STOP", "RESUME"}, MaxEvents)

SpecCb == InitCb /\ [][NextCb]_vars

\* C40 (as claimed): a command a callback has issued through Execute gets
\* the server's reply: once QEMU has answered it, the call ends with the
\* reply and not by its timeout.
C40_CallbackCallAnswered ==
  (cpc[Reader] \in {"defer", "done"} /\ cid[Reader] \in srvReplied)
    => cres[Reader] /= "timeout"

\* What the code does instead: while the callback runs the loop reads no
\* line, so nothing is ever sent to the sink of the callback's call, and
\* every such call ends by its timeout.
C40_CallbackCallTimesOut ==
  /\ respCh[Reader] = <<>>
  /\ cpc[Reader] \in {"defer", "done"} => cres[Reader] = "timeout"
  /\ cpc[Reader] /= "idle" => ~ ENABLED ReadLine

\* The same call made by a user goroutine can end with the reply.
C40_UserCallAnswered ==
  cpc[1] = "done" /\ cres[1] = "return"

====
